---- MODULE Spec2Model ----
(***************************************************************************)
(* Model of the content-generation post-processing pipeline of             *)
(* research-patron/post_analyze (src/src/services/seoMetrics.ts):          *)
(*   - RateLimiter          (per-model sliding window admission control)   *)
(*   - parseMarkdownArticle (raw text -> AISuggestion)                     *)
(*   - prompt history store (addPromptHistory and friends, localStorage)   *)
(*   - makeGeminiRequest and its four callers (admission, provider call)   *)
(*   - analyzeSEO and its scores, filterPromptHistory and the statistics   *)
(*   - contentFormatter.ts (formatFullArticleToHTML, cleanupHTML)          *)
(* Each component has its own specification over the shared variables.     *)
(***************************************************************************)
EXTENDS Integers, Naturals, Sequences, FiniteSets, TLC

VARIABLES
  now,                  \* Date.now(), milliseconds
  ticks,                \* number of clock advances so far (bounded)
  requests,             \* RateLimiter.requests : model -> list of times
  tokens,               \* RateLimiter.tokens   : model -> list of token amounts
  rlLog,                \* observer: every recordRequest made, model -> list of [time, tokens]
  rlRet,                \* observer: the canMakeRequest call that just returned
  text,                 \* parseMarkdownArticle: the argument, a list of characters
  doc,                  \* observer: the parts the argument was assembled from, if any
  pc,                   \* parseMarkdownArticle: "input" before the call, "done" after
  parsed,               \* parseMarkdownArticle: the outcome of the call
  history,              \* localStorage['promptHistory']: the list of records
  unparsable,           \* localStorage['promptHistory'] also holds a malformed entry
  quotaExceeded,        \* localStorage.setItem throws
  lastPromptHistoryId,  \* module variable of the history service
  lastPromptTimestamp,  \* module variable of the history service
  nextId,               \* the next fresh record id
  ops,                  \* number of history operations so far (bounded)
  updatedFields,        \* observer: fields ever written by updatePromptHistory or savePromptHistory calls
  lastAdd,              \* observer: the latest addPromptHistory call
  call,                 \* observer: the history operation that just returned
  prevCall,             \* observer: the history operation before that one
  query,                \* filterPromptHistory / calculatePromptHistoryStats: the call made
  seo,                  \* analyzeSEO: the arguments and the metrics returned
  fmt,                  \* contentFormatter: the arguments and the value returned
  gen                   \* makeGeminiRequest: the calls of its callers so far

rlVars == <<requests, tokens, rlLog, rlRet>>
parseVars == <<text, doc, pc, parsed>>
histVars == <<history, unparsable, quotaExceeded, lastPromptHistoryId,
              lastPromptTimestamp, nextId, ops, updatedFields, lastAdd, call,
              prevCall>>
pureVars == <<query, seo, fmt, gen>>
vars == <<now, ticks, rlVars, parseVars, histVars, pureVars>>

----------------------------------------------------------------------------
(* Generic helpers *)

RECURSIVE SumSeq(_)
SumSeq(s) == IF s = <<>> THEN 0 ELSE Head(s) + SumSeq(Tail(s))

Min(a, b) == IF a <= b THEN a ELSE b
Max(a, b) == IF a >= b THEN a ELSE b

SetMin(S) == CHOOSE x \in S : \A y \in S : x <= y
SetMax(S) == CHOOSE x \in S : \A y \in S : x >= y

----------------------------------------------------------------------------
(* Clock.  Date.now() is about 1.7 * 10^12; TLC's integers are 32 bits    *)
(* wide, so the epoch offset is represented by 10^9 ms, which like the     *)
(* real value lies far above every token amount plus the window.           *)

Epoch == 1000 * 1000000

MaxTicks == 3

----------------------------------------------------------------------------
(* The components a specification does not exercise stay in these states. *)

NoDoc == [given |-> FALSE]
NoParse == [returned |-> FALSE]

ParseIdle ==
  /\ text = <<>>
  /\ doc = NoDoc
  /\ pc = "idle"
  /\ parsed = NoParse

NoCall == [op |-> "none"]

HistIdle ==
  /\ history = <<>>
  /\ unparsable = FALSE
  /\ quotaExceeded = FALSE
  /\ lastPromptHistoryId = 0
  /\ lastPromptTimestamp = 0
  /\ nextId = 1
  /\ ops = 0
  /\ updatedFields = {}
  /\ lastAdd = NoCall
  /\ call = NoCall
  /\ prevCall = NoCall

NoQuery == [op |-> "none"]
NoSeo == [op |-> "none"]
NoFmt == [op |-> "none"]
NoGen == [calls |-> <<>>]

PureIdle ==
  /\ query = NoQuery
  /\ seo = NoSeo
  /\ fmt = NoFmt
  /\ gen = NoGen

----------------------------------------------------------------------------
(* RateLimiter *)

ProModel == "gemini-2.5-pro"
FlashModel == "gemini-2.5-flash"
OtherModel == "gemini-1.0"

Models == {ProModel, FlashModel, OtherModel}

RATE_LIMITS ==
  (ProModel :> [rpm |-> 2, tpm |-> 32000]) @@
  (FlashModel :> [rpm |-> 15, tpm |-> 1000000])

oneMinute == 60 * 1000

\* inputs
EstTokens == {3000, 32000}
RecTokens == {500, 31000}
RLDeltas == {1, 59999}
MaxRecorded == 2

\* variant of PruneRequests that keeps every entry
PruneNoop(list, t) == list

\* this.requests[model].filter(time => now - time < oneMinute)
PruneRequests(list, t) == SelectSeq(list, LAMBDA time : t - time < oneMinute)

\* this.tokens[model].filter(time => now - time < oneMinute)
\* (the elements of tokens[model] are token amounts; the callback reads
\*  them as times)
PruneTokens(list, t) == SelectSeq(list, LAMBDA time : t - time < oneMinute)

\* the value returned by canMakeRequest, on the pruned lists
CanMakeRequestResult(model, estimatedTokens, reqs, toks) ==
  IF model \notin DOMAIN RATE_LIMITS THEN FALSE
  ELSE /\ Len(reqs) < RATE_LIMITS[model].rpm
       /\ SumSeq(toks) + estimatedTokens < RATE_LIMITS[model].tpm

NoRlRet == [called |-> FALSE, recorded |-> FALSE]

canMakeRequest(model, estimatedTokens) ==
  LET reqs == PruneRequests(requests[model], now)
      toks == PruneTokens(tokens[model], now)
  IN /\ requests' = [requests EXCEPT ![model] = reqs]
     /\ tokens' = [tokens EXCEPT ![model] = toks]
     /\ rlRet' = [called |-> TRUE, model |-> model, est |-> estimatedTokens,
                  at |-> now,
                  result |-> CanMakeRequestResult(model, estimatedTokens, reqs, toks)]
     /\ UNCHANGED <<rlLog, now, ticks, parseVars, histVars, pureVars>>

TotalRecorded == Len(rlLog[ProModel]) + Len(rlLog[FlashModel]) + Len(rlLog[OtherModel])

recordRequest(model, tok) ==
  /\ TotalRecorded < MaxRecorded
  /\ requests' = [requests EXCEPT ![model] = Append(@, now)]
  /\ tokens' = [tokens EXCEPT ![model] = Append(@, tok)]
  /\ rlLog' = [rlLog EXCEPT ![model] = Append(@, [time |-> now, tokens |-> tok])]
  /\ rlRet' = [called |-> FALSE, recorded |-> TRUE, model |-> model, at |-> now]
  /\ UNCHANGED <<now, ticks, parseVars, histVars, pureVars>>

TickRL(d) ==
  /\ ticks < MaxTicks
  /\ now' = now + d
  /\ ticks' = ticks + 1
  /\ UNCHANGED <<rlVars, parseVars, histVars, pureVars>>

RLIdle ==
  /\ requests = [m \in Models |-> <<>>]
  /\ tokens = [m \in Models |-> <<>>]
  /\ rlLog = [m \in Models |-> <<>>]
  /\ rlRet = NoRlRet

InitRL ==
  /\ now = Epoch
  /\ ticks = 0
  /\ RLIdle
  /\ ParseIdle
  /\ HistIdle
  /\ PureIdle

NextRL ==
  \/ \E m \in Models, e \in EstTokens : canMakeRequest(m, e)
  \/ \E m \in Models, k \in RecTokens : recordRequest(m, k)
  \/ \E d \in RLDeltas : TickRL(d)

SpecRL == InitRL /\ [][NextRL]_vars

----------------------------------------------------------------------------
(* The callers of makeGeminiRequest (lines 1607-1746):                      *)
(* generateArticleSuggestions (lines 1769-1880), which asks canMakeRequest *)
(* first, and generateArticleContent (lines 1883-1935), validateGeminiApiKey*)
(* (lines 1749-1766) and testGeminiConnection (lines 1986-2019), which do  *)
(* not.  A call runs without interruption from its start to the fetch, and *)
(* makeGeminiRequest from the provider's response to its return; the       *)
(* caller's await resumes in a later microtask, so that other calls run in *)
(* between.  gen.calls keeps every call: its function, its model, the time *)
(* of its start (and of its canMakeRequest check), where it stands ("sent" *)
(* while the fetch is pending, "answered" when makeGeminiRequest has       *)
(* returned and the caller has not resumed, "refused" by the limiter,      *)
(* "unsent" when it ended before the fetch, "done" or "failed" at its end) *)
(* and how often it has called recordRequest; the calls are seen in        *)
(* gen.calls, and the observers rlLog and rlRet of the limiter's own        *)
(* operations stay as they are.                                            *)

MaxCalls == 3

\* inputs: Math.ceil((prompt.length + content.length) / 4) of line 1715, for
\* the prompts of an article, of the key validation (3 characters) and of
\* the connection test (31 characters) with a short answer
ResponseTokens(fn) ==
  IF fn = "validateGeminiApiKey" THEN {2}
  ELSE IF fn = "testGeminiConnection" THEN {10}
  ELSE {2000}

\* the time that passes between two steps: one window, at most MaxGenTicks
\* times
GenDeltas == {60000}
MaxGenTicks == 1

\* inputs: the models a caller passes; validateGeminiApiKey passes
\* 'gemini-2.5-flash' (line 1756)
CallerModels(fn) ==
  IF fn = "validateGeminiApiKey" THEN {FlashModel} ELSE {ProModel, FlashModel}

\* isConnectionTest of lines 1758 and 2004
IsConnectionTest(fn) == fn \in {"validateGeminiApiKey", "testGeminiConnection"}

\* lines 1782-1789 and 1860-1864: the check, then the prompt is built and
\* makeGeminiRequest reaches its fetch (line 1628)
generateArticleSuggestions(model) ==
  LET reqs == PruneRequests(requests[model], now)
      toks == PruneTokens(tokens[model], now)
      admitted == CanMakeRequestResult(model, 3000, reqs, toks)
  IN /\ Len(gen.calls) < MaxCalls
     /\ requests' = [requests EXCEPT ![model] = reqs]
     /\ tokens' = [tokens EXCEPT ![model] = toks]
     /\ gen' = [calls |-> Append(gen.calls,
                                 [fn |-> "generateArticleSuggestions",
                                  model |-> model, checkedAt |-> now,
                                  state |-> IF admitted THEN "sent" ELSE "refused",
                                  recorded |-> 0])]
     /\ UNCHANGED <<rlLog, rlRet, now, ticks, parseVars, histVars, query, seo, fmt>>

\* the start of a caller that does not ask the limiter. lines 1894-1921:
\* generateArticleContent decrypts the key (which can throw) and reaches the
\* fetch; lines 1750-1759: validateGeminiApiKey does the same; lines
\* 1990-2006: testGeminiConnection returns at once for a blank key and
\* reaches the fetch otherwise
StartUnchecked(fn, model, keyUsable) ==
  /\ Len(gen.calls) < MaxCalls
  /\ gen' = [calls |-> Append(gen.calls,
                              [fn |-> fn, model |-> model, checkedAt |-> now,
                               state |-> IF keyUsable THEN "sent" ELSE "unsent",
                               recorded |-> 0])]
  /\ UNCHANGED <<now, ticks, rlVars, parseVars, histVars, query, seo, fmt>>

generateArticleContent(model, keyUsable) ==
  StartUnchecked("generateArticleContent", model, keyUsable)

validateGeminiApiKey(keyUsable) ==
  StartUnchecked("validateGeminiApiKey", FlashModel, keyUsable)

testGeminiConnection(model, keyUsable) ==
  StartUnchecked("testGeminiConnection", model, keyUsable)

\* lines 1671-1725: the response holds a text; recordRequest, and
\* makeGeminiRequest returns
ProviderResponds(i, estimatedTokens) ==
  LET model == gen.calls[i].model
  IN /\ gen.calls[i].state = "sent"
     /\ requests' = [requests EXCEPT ![model] = Append(@, now)]
     /\ tokens' = [tokens EXCEPT ![model] = Append(@, estimatedTokens)]
     /\ gen' = [calls |-> [gen.calls EXCEPT ![i].state = "answered",
                                             ![i].recorded = @ + 1]]
     /\ UNCHANGED <<rlLog, rlRet, now, ticks, parseVars, histVars, query, seo, fmt>>

\* lines 1686-1695: the response of a connection test holds no text and
\* finishReason MAX_TOKENS; makeGeminiRequest returns without recordRequest
ProviderTruncates(i) ==
  /\ gen.calls[i].state = "sent"
  /\ IsConnectionTest(gen.calls[i].fn)
  /\ gen' = [calls |-> [gen.calls EXCEPT ![i].state = "answered"]]
  /\ UNCHANGED <<now, ticks, rlVars, parseVars, histVars, query, seo, fmt>>

\* lines 1860-1867, 1917-1922, 1754-1761 and 1997-2012: the await of
\* makeGeminiRequest resumes and the caller returns
CallerResumes(i) ==
  /\ gen.calls[i].state = "answered"
  /\ gen' = [calls |-> [gen.calls EXCEPT ![i].state = "done"]]
  /\ UNCHANGED <<now, ticks, rlVars, parseVars, histVars, query, seo, fmt>>

\* lines 1651-1711 and 1727-1745: fetch rejects, the status is not ok, or
\* the response holds no candidate or no text; makeGeminiRequest throws,
\* and the caller throws (or returns false) as its await resumes, with
\* nothing written in between
ProviderFails(i) ==
  /\ gen.calls[i].state = "sent"
  /\ gen' = [calls |-> [gen.calls EXCEPT ![i].state = "failed"]]
  /\ UNCHANGED <<now, ticks, rlVars, parseVars, histVars, query, seo, fmt>>

\* time passes while calls are pending
TickGen(d) ==
  /\ ticks < MaxGenTicks
  /\ TickRL(d)

InitGen ==
  /\ now = Epoch
  /\ ticks = 0
  /\ RLIdle
  /\ ParseIdle
  /\ HistIdle
  /\ PureIdle

NextGen ==
  \/ \E m \in CallerModels("generateArticleSuggestions") : generateArticleSuggestions(m)
  \/ \E m \in CallerModels("generateArticleContent"), keyUsable \in BOOLEAN :
       generateArticleContent(m, keyUsable)
  \/ \E keyUsable \in BOOLEAN : validateGeminiApiKey(keyUsable)
  \/ \E m \in CallerModels("testGeminiConnection"), keyUsable \in BOOLEAN :
       testGeminiConnection(m, keyUsable)
  \/ \E i \in 1..Len(gen.calls) :
       \E k \in ResponseTokens(gen.calls[i].fn) : ProviderResponds(i, k)
  \/ \E i \in 1..Len(gen.calls) : ProviderTruncates(i)
  \/ \E i \in 1..Len(gen.calls) : CallerResumes(i)
  \/ \E i \in 1..Len(gen.calls) : ProviderFails(i)
  \/ \E d \in GenDeltas : TickGen(d)

SpecGen == InitGen /\ [][NextGen]_vars

----------------------------------------------------------------------------
(* RateLimiter: observers for the claims *)

\* the recordRequest calls for a model made in the 60 seconds before t
InWindow(model, t) == SelectSeq(rlLog[model], LAMBDA r : t - r.time < oneMinute)

RECURSIVE SumTokens(_)
SumTokens(s) == IF s = <<>> THEN 0 ELSE Head(s).tokens + SumTokens(Tail(s))

Configured(model) == model \in DOMAIN RATE_LIMITS

\* C1 (as stated): canMakeRequest(model, estimatedTokens) returns true exactly
\* when the model has configured limits, fewer than rpm requests were recorded
\* for it in the trailing 60 seconds, and the token amounts recorded for it in
\* the trailing 60 seconds plus estimatedTokens stay below tpm.
C1_AdmitIffWithinBudgets ==
  rlRet.called =>
    rlRet.result =
      (IF ~Configured(rlRet.model) THEN FALSE
       ELSE /\ Len(InWindow(rlRet.model, rlRet.at)) < RATE_LIMITS[rlRet.model].rpm
            /\ SumTokens(InWindow(rlRet.model, rlRet.at)) + rlRet.est
                 < RATE_LIMITS[rlRet.model].tpm)

\* C2: for a configured model, while rpm requests recorded within the last
\* 60 seconds are on record canMakeRequest returns false whatever the
\* estimate; once every record of a model that used up its rpm budget is 60
\* seconds old or older, canMakeRequest returns true for every estimate below
\* tpm.
C2_FullThenRecovers ==
  (rlRet.called /\ Configured(rlRet.model)) =>
    /\ (Len(InWindow(rlRet.model, rlRet.at)) >= RATE_LIMITS[rlRet.model].rpm
          => rlRet.result = FALSE)
    /\ ((/\ Len(rlLog[rlRet.model]) >= RATE_LIMITS[rlRet.model].rpm
         /\ InWindow(rlRet.model, rlRet.at) = <<>>
         /\ rlRet.est < RATE_LIMITS[rlRet.model].tpm)
          => rlRet.result = TRUE)

\* C2 witness: the pro model used its whole rpm budget inside one window, the
\* window has passed, and canMakeRequest has just returned true again.
C2_Witness ==
  /\ rlRet.called /\ rlRet.model = ProModel /\ rlRet.result = TRUE
  /\ Len(rlLog[ProModel]) >= RATE_LIMITS[ProModel].rpm
  /\ rlLog[ProModel][Len(rlLog[ProModel])].time - rlLog[ProModel][1].time < oneMinute
  /\ InWindow(ProModel, rlRet.at) = <<>>

\* the recordRequest calls for a model made at most 60 seconds before t
AtMostWindow(model, t) == SelectSeq(rlLog[model], LAMBDA r : t - r.time <= oneMinute)

\* C20 (as stated): after a canMakeRequest call and after a recordRequest
\* call for a model, no stored request timestamp of that model is older than
\* 60 seconds, and its stored token samples are those recorded within the
\* last 60 seconds: none older, none of the recent ones missing.
C20_WindowSelfMaintaining ==
  (rlRet.called \/ rlRet.recorded) =>
    LET m == rlRet.model
        t == rlRet.at
        log == rlLog[m]
        k == Len(tokens[m])
    IN /\ \A i \in 1..Len(requests[m]) : t - requests[m][i] <= oneMinute
       /\ k >= Len(InWindow(m, t))
       /\ k <= Len(AtMostWindow(m, t))
       /\ \A i \in 1..k : tokens[m][i] = log[Len(log) - k + i].tokens

----------------------------------------------------------------------------
(* parseMarkdownArticle.  A text is a list of one-character strings.  The  *)
(* three labels the parser looks for are single symbols of the alphabet:   *)
(*   "M" = the literal **meta description:** label  (line 1475)            *)
(*   "C" = the literal **recommended category:** label (line 1479)         *)
(*   "T" = the literal **recommended tag:** label (line 1485)              *)

MetaLabel == "M"
CategoryLabel == "C"
TagLabel == "T"

\* \s (and what trim() removes) and the line terminators (where ^ and $
\* anchor under /m, and what . does not match).  A character outside ASCII
\* is written by its code point: "U+3000" is the ideographic space, one
\* character of the text.
WhiteSpace ==
  {" ", "\t", "\n", "\r", "U+000B", "U+000C", "U+00A0", "U+1680", "U+2000", "U+2001",
   "U+2002", "U+2003", "U+2004", "U+2005", "U+2006", "U+2007", "U+2008", "U+2009",
   "U+200A", "U+2028", "U+2029", "U+202F", "U+205F", "U+3000", "U+FEFF"}
LineTerminators == {"\n", "\r", "U+2028", "U+2029"}

\* String.prototype.trim
RECURSIVE TrimStart(_)
TrimStart(s) ==
  IF s # <<>> /\ Head(s) \in WhiteSpace THEN TrimStart(Tail(s)) ELSE s

RECURSIVE TrimEnd(_)
TrimEnd(s) ==
  IF s # <<>> /\ s[Len(s)] \in WhiteSpace
  THEN TrimEnd(SubSeq(s, 1, Len(s) - 1)) ELSE s

Trim(s) == TrimEnd(TrimStart(s))

\* length of the run of characters of set cs that starts at position p
RunLen(s, p, cs) ==
  SetMax({n \in 0..(Len(s) + 1 - p) : \A j \in p..(p + n - 1) : s[j] \in cs})

WsRun(s, p) == RunLen(s, p, WhiteSpace)
HashRun(s, p) == RunLen(s, p, {"#"})

\* ^ under the m flag
AtLineStart(s, i) == i = 1 \/ s[i - 1] \in LineTerminators

\* last position of the run of non-terminator characters that starts at p
LineEnd(s, p) ==
  SetMin({e \in p..Len(s) : e = Len(s) \/ s[e + 1] \in LineTerminators})

NoMatch == [from |-> 0, to |-> 0]

\* The tail  \s+(.+)$  or  \s*(.+?)(?:\n|$)  of the parser's patterns,
\* matched at position p: the whitespace quantifier is greedy and gives
\* characters back until the group can match; the group runs to the end of
\* its line.  anchor is what must follow the group:
\*   "m": $ under the m flag (a line terminator or the end of the text)
\*   "n": (?:\n|$) without the m flag (a newline or the end of the text)
\*   "e": $ without the m flag (the end of the text)
\* The result is the extent of the group.
CaptureAfterWs(s, p, minWs, anchor) ==
  LET w == WsRun(s, p)
      ok(k) ==
        LET from == p + k IN
        /\ from <= Len(s)
        /\ s[from] \notin LineTerminators
        /\ LET e == LineEnd(s, from) IN
             \/ anchor = "m"
             \/ anchor = "n" /\ (e = Len(s) \/ s[e + 1] = "\n")
             \/ anchor = "e" /\ e = Len(s)
      ks == {k \in minWs..w : ok(k)}
  IN IF ks = {} THEN NoMatch
     ELSE [from |-> p + SetMax(ks), to |-> LineEnd(s, p + SetMax(ks))]

\* '生成された記事' (line 1472), 'エラー: 記事の解析に失敗しました' (line 1556),
\* '記事の解析に失敗しました。' (line 1560), 'に関する詳細な解説' (line 1507)
DefaultTitle == <<"GENERATED-ARTICLE">>
ErrorTitle == <<"ERROR-PARSE-FAILED">>
ErrorMeta == <<"PARSE-FAILED">>
DescriptionSuffix == <<"-DETAILED-EXPLANATION">>

\* text.match(/^#\s+(.+)$/m), then titleMatch[1].trim() or the default
TitleStarts(s) ==
  {i \in 1..Len(s) : /\ AtLineStart(s, i)
                     /\ s[i] = "#"
                     /\ CaptureAfterWs(s, i + 1, 1, "m") # NoMatch}

ExtractTitle(s) ==
  IF TitleStarts(s) = {} THEN DefaultTitle
  ELSE LET cap == CaptureAfterWs(s, SetMin(TitleStarts(s)) + 1, 1, "m")
       IN Trim(SubSeq(s, cap.from, cap.to))

\* text.match(/<label>\s*(.+?)(?:\n|$)/): the group of the first match,
\* or NoMatch
LabelStarts(s, label) ==
  {i \in 1..Len(s) : s[i] = label /\ CaptureAfterWs(s, i + 1, 0, "n") # NoMatch}

LabelMatch(s, label) ==
  IF LabelStarts(s, label) = {} THEN NoMatch
  ELSE CaptureAfterWs(s, SetMin(LabelStarts(s, label)) + 1, 0, "n")

\* metaMatch ? metaMatch[1].trim() : ''
ExtractMeta(s) ==
  LET cap == LabelMatch(s, MetaLabel)
  IN IF cap = NoMatch THEN <<>> ELSE Trim(SubSeq(s, cap.from, cap.to))

\* String.prototype.split(',')
RECURSIVE SplitComma(_)
SplitComma(s) ==
  LET commas == {j \in 1..Len(s) : s[j] = ","}
  IN IF commas = {} THEN <<s>>
     ELSE <<SubSeq(s, 1, SetMin(commas) - 1)>>
            \o SplitComma(SubSeq(s, SetMin(commas) + 1, Len(s)))

\* .replace(/[\[\]]/g, '')
RemoveBrackets(s) == SelectSeq(s, LAMBDA c : c \notin {"[", "]"})

\* match[1].split(',').map(c => c.trim().replace(/[\[\]]/g, '')), or []
ExtractNames(s, label) ==
  LET cap == LabelMatch(s, label)
  IN IF cap = NoMatch THEN <<>>
     ELSE LET parts == SplitComma(SubSeq(s, cap.from, cap.to))
          IN [i \in 1..Len(parts) |-> RemoveBrackets(Trim(parts[i]))]

\* names.filter(name => name.length > 0)
NonEmptyNames(names) == SelectSeq(names, LAMBDA n : Len(n) > 0)

\* text.match(/---\s*\n([\s\S]*)/): positions where the pattern matches
DelimiterStarts(s) ==
  {i \in 1..(Len(s) - 2) :
     /\ s[i] = "-" /\ s[i + 1] = "-" /\ s[i + 2] = "-"
     /\ \E j \in (i + 3)..(i + 2 + WsRun(s, i + 3)) : s[j] = "\n"}

\* variant of ExtractBody that trims the text also when nothing matched
ExtractBodyTrimmed(s) ==
  IF DelimiterStarts(s) = {} THEN Trim(s)
  ELSE LET i == SetMin(DelimiterStarts(s))
           q == SetMax({j \in (i + 3)..(i + 2 + WsRun(s, i + 3)) : s[j] = "\n"})
       IN Trim(SubSeq(s, q + 1, Len(s)))

\* contentMatch ? contentMatch[1].trim() : text
ExtractBody(s) ==
  IF DelimiterStarts(s) = {} THEN s
  ELSE LET i == SetMin(DelimiterStarts(s))
           q == SetMax({j \in (i + 3)..(i + 2 + WsRun(s, i + 3)) : s[j] = "\n"})
       IN Trim(SubSeq(s, q + 1, Len(s)))

\* variant of HeadingAt for the pattern /^(#{2,3})\s+(.+)$/m
HeadingAtShallow(s, i) ==
  /\ AtLineStart(s, i)
  /\ HashRun(s, i) \in 2..3
  /\ CaptureAfterWs(s, i + HashRun(s, i), 1, "m") # NoMatch

\* a match of /^(#{2,6})\s+(.+)$/m starts at position i
HeadingAt(s, i) ==
  /\ AtLineStart(s, i)
  /\ HashRun(s, i) \in 2..6
  /\ CaptureAfterWs(s, i + HashRun(s, i), 1, "m") # NoMatch

\* fullContent.match(/^(#{2,6})\s+(.+)$/gm): the matched strings, from
\* position pos on, in order
RECURSIVE HeadingMatches(_, _)
HeadingMatches(s, pos) ==
  LET starts == {i \in pos..Len(s) : HeadingAt(s, i)}
  IN IF starts = {} THEN <<>>
     ELSE LET i == SetMin(starts)
              cap == CaptureAfterWs(s, i + HashRun(s, i), 1, "m")
          IN <<SubSeq(s, i, cap.to)>> \o HeadingMatches(s, cap.to + 1)

\* match.match(/^(#{2,6})\s+(.+)$/) on one matched string (no m flag)
LevelMatches(ms) ==
  /\ HashRun(ms, 1) \in 2..6
  /\ CaptureAfterWs(ms, 1 + HashRun(ms, 1), 1, "e") # NoMatch

HeadingOf(ms) ==
  LET cap == CaptureAfterWs(ms, 1 + HashRun(ms, 1), 1, "e")
      t == Trim(SubSeq(ms, cap.from, cap.to))
  IN [level |-> HashRun(ms, 1), text |-> t, description |-> t \o DescriptionSuffix]

\* the forEach of lines 1498-1511
ExtractHeadings(fullContent) ==
  LET ms == SelectSeq(HeadingMatches(fullContent, 1), LevelMatches)
  IN [i \in 1..Len(ms) |-> HeadingOf(ms[i])]

\* a match of /^#{2,6}\s+/m starts at position i
SeparatorAt(s, i) ==
  /\ AtLineStart(s, i)
  /\ HashRun(s, i) \in 2..6
  /\ WsRun(s, i + HashRun(s, i)) >= 1

\* fullContent.split(/^#{2,6}\s+/m), from position pos on
RECURSIVE SplitSections(_, _)
SplitSections(s, pos) ==
  LET starts == {i \in pos..Len(s) : SeparatorAt(s, i)}
  IN IF starts = {} THEN <<SubSeq(s, pos, Len(s))>>
     ELSE LET i == SetMin(starts)
              n == HashRun(s, i)
          IN <<SubSeq(s, pos, i - 1)>>
               \o SplitSections(s, i + n + WsRun(s, i + n))

\* String.prototype.substring(start, end) and substring(start)
Substring(s, start, end) ==
  SubSeq(s, Min(Max(start, 0), Len(s)) + 1, Min(Max(end, 0), Len(s)))
SubstringFrom(s, start) == SubSeq(s, Min(Max(start, 0), Len(s)) + 1, Len(s))

\* the try block, lines 1470-1549
ExtractSuggestion(s) ==
  LET metaDescription == ExtractMeta(s)
      fullContent == ExtractBody(s)
      sections == SplitSections(fullContent, 1)
  IN [titles |-> <<ExtractTitle(s)>>,
      categories |-> [existing |-> <<>>,
                      new |-> NonEmptyNames(ExtractNames(s, CategoryLabel))],
      tags |-> [existing |-> <<>>,
                new |-> NonEmptyNames(ExtractNames(s, TagLabel))],
      headings |-> ExtractHeadings(fullContent),
      metaDescriptions |-> IF metaDescription # <<>> THEN <<metaDescription>> ELSE <<>>,
      fullArticle |->
        [introduction |-> IF sections[1] # <<>>
                          THEN Substring(Trim(sections[1]), 0, 300) ELSE <<>>,
         mainContent |-> fullContent,
         conclusion |-> IF Len(sections) > 1
                        THEN SubstringFrom(Trim(sections[Len(sections)]), 0 - 200)
                        ELSE <<>>]]

\* variant of FallbackSuggestion that drops the raw text
FallbackLosingText(s) ==
  [titles |-> <<ErrorTitle>>,
   categories |-> [existing |-> <<>>, new |-> <<>>],
   tags |-> [existing |-> <<>>, new |-> <<>>],
   headings |-> <<>>,
   metaDescriptions |-> <<ErrorMeta>>,
   fullArticle |-> [introduction |-> <<>>, mainContent |-> <<>>, conclusion |-> <<>>]]

\* the catch block, lines 1551-1567
FallbackSuggestion(s) ==
  [titles |-> <<ErrorTitle>>,
   categories |-> [existing |-> <<>>, new |-> <<>>],
   tags |-> [existing |-> <<>>, new |-> <<>>],
   headings |-> <<>>,
   metaDescriptions |-> <<ErrorMeta>>,
   fullArticle |-> [introduction |-> <<>>, mainContent |-> s, conclusion |-> <<>>]]

\* The whole function.  The statement before the try block (line 1467) takes
\* a substring of the argument and cannot raise for a string.  Nothing in
\* the try block raises for a string argument by itself; throws stands for
\* an exception raised underneath it (the regular-expression engine).  The
\* attempt is the try block's completion, which the catch clause replaces
\* by the fallback value when it is an exception; the function raises only
\* what is left raised after that.
ParseOutcome(s, throws) ==
  LET attempt == [raised |-> throws,
                  value |-> IF throws THEN FallbackSuggestion(<<>>)
                            ELSE ExtractSuggestion(s)]
      caught == IF attempt.raised
                THEN [raised |-> FALSE, value |-> FallbackSuggestion(s)]
                ELSE attempt
  IN [returned |-> ~caught.raised, raised |-> caught.raised, threw |-> throws,
      value |-> caught.value]

parseMarkdownArticle(throws) ==
  /\ pc = "input"
  /\ parsed' = ParseOutcome(text, throws)
  /\ pc' = "done"
  /\ UNCHANGED <<text, doc, now, ticks, rlVars, histVars, pureVars>>

----------------------------------------------------------------------------
(* parseMarkdownArticle: inputs *)

MaxTextLen == 6
MaxBodyLines == 3

Alphabet == {"#", " ", "\n", "-", "a", "U+3000", "U+2028"}

\* every text over the alphabet up to the length bound
RawTexts == UNION {[1..n -> Alphabet] : n \in 0..MaxTextLen}

\* documents in the layout the generation prompt asks for: a title line, a
\* labeled meta line, labeled category and tag lines, a delimiter line and a
\* body of heading lines (h = level) and other lines (h = 0)
DocTitles == {<<"a">>, <<"b", "-", "-", "-">>}
DocMetas == {<<"a">>, <<"a", " ", "b">>}
DocCategories == <<"[", "a", "]", ",", " ", "b">>
DocTags == <<"a", ",", "b">>
BodyLineKinds ==
  {[h |-> 2, t |-> <<"a">>], [h |-> 3, t |-> <<"b">>],
   [h |-> 6, t |-> <<"a", " ", "b">>],
   [h |-> 0, t |-> <<"a">>], [h |-> 0, t |-> <<"#", "#", "a">>],
   [h |-> 0, t |-> <<>>]}

DocInputs ==
  {[given |-> TRUE, title |-> ti, meta |-> me, spaced |-> sp, body |-> bo] :
     ti \in DocTitles, me \in DocMetas, sp \in BOOLEAN,
     bo \in UNION {[1..n -> BodyLineKinds] : n \in 0..MaxBodyLines}}

Hashes(n) == [i \in 1..n |-> "#"]

BodyLineText(l) == IF l.h = 0 THEN l.t ELSE Hashes(l.h) \o <<" ">> \o l.t

RECURSIVE JoinLines(_)
JoinLines(ls) ==
  IF ls = <<>> THEN <<>>
  ELSE IF Len(ls) = 1 THEN ls[1]
  ELSE ls[1] \o <<"\n">> \o JoinLines(Tail(ls))

DocLines(d) ==
  IF d.spaced
  THEN << <<"#", " ">> \o d.title, <<>>,
          <<MetaLabel, " ">> \o d.meta, <<>>,
          <<CategoryLabel, " ">> \o DocCategories,
          <<TagLabel, " ">> \o DocTags, <<>>,
          <<"-", "-", "-">>, <<>> >>
       \o [i \in 1..Len(d.body) |-> BodyLineText(d.body[i])]
  ELSE << <<"#", " ">> \o d.title,
          <<MetaLabel>> \o d.meta,
          <<CategoryLabel>> \o DocCategories,
          <<TagLabel>> \o DocTags,
          <<"-", "-", "-">> >>
       \o [i \in 1..Len(d.body) |-> BodyLineText(d.body[i])]

DocText(d) == JoinLines(DocLines(d))

\* the heading lines of a document's body, in order
DocHeadings(d) == SelectSeq(d.body, LAMBDA l : l.h # 0)

InitParse ==
  /\ now = Epoch
  /\ ticks = 0
  /\ RLIdle
  /\ HistIdle
  /\ PureIdle
  /\ pc = "input"
  /\ parsed = NoParse
  /\ \/ doc = NoDoc /\ text \in RawTexts
     \/ \E d \in DocInputs : doc = d /\ text = DocText(d)

NextParse == \E throws \in BOOLEAN : parseMarkdownArticle(throws)

SpecParse == InitParse /\ [][NextParse]_vars

----------------------------------------------------------------------------
(* parseMarkdownArticle: claims *)

\* the lines of the text are its maximal runs without a line terminator;
\* a horizontal-rule line is a line that holds three or more hyphens and
\* nothing else but whitespace around them
IsRule(line) ==
  /\ Len(Trim(line)) >= 3
  /\ \A k \in 1..Len(Trim(line)) : Trim(line)[k] = "-"

HasRuleLine(s) ==
  \E a \in 1..Len(s), b \in 1..Len(s) :
    /\ a <= b
    /\ a = 1 \/ s[a - 1] \in LineTerminators
    /\ b = Len(s) \/ s[b + 1] \in LineTerminators
    /\ \A k \in a..b : s[k] \notin LineTerminators
    /\ IsRule(SubSeq(s, a, b))

\* some stretch of the text that a line feed ends (it starts after the line
\* feed before it, or at the start of the text) finishes with three
\* hyphens, the whitespace after them not counted
HasHyphenEndedLine(s) ==
  \E j \in 1..Len(s) :
    /\ s[j] = "\n"
    /\ LET from == SetMin({a \in 1..j : \A k \in a..(j - 1) : s[k] # "\n"})
           line == TrimEnd(SubSeq(s, from, j - 1))
       IN /\ Len(line) >= 3
          /\ SubSeq(line, Len(line) - 2, Len(line)) = <<"-", "-", "-">>

\* C8 (as stated): parseMarkdownArticle never raises, whatever the string
\* (the empty one included), and for a text without a horizontal-rule
\* delimiter line the returned fullArticle.mainContent is the text itself,
\* character for character.
C8_NeverRaisesVerbatim ==
  pc = "done" =>
    /\ parsed.returned /\ ~parsed.raised
    /\ (~HasRuleLine(text) => parsed.value.fullArticle.mainContent = text)

\* C8 (amended): parseMarkdownArticle never raises, whatever the string
\* (the empty one included), and for a text in which no line that a line
\* feed ends finishes with three hyphens (whitespace after them ignored)
\* the returned fullArticle.mainContent is the text itself, character for
\* character.
C8_NeverRaisesVerbatimUnlessHyphenEnded ==
  pc = "done" =>
    /\ parsed.returned /\ ~parsed.raised
    /\ (~HasHyphenEndedLine(text) => parsed.value.fullArticle.mainContent = text)

\* C8 witness: a text that holds three hyphens in a row, though not at the
\* end of a line that a line feed ends, and that trimming would change has
\* been parsed by the try block and came back verbatim.
C8_Witness ==
  /\ pc = "done" /\ ~parsed.threw /\ parsed.returned /\ ~parsed.raised
  /\ ~HasHyphenEndedLine(text)
  /\ Trim(text) # text
  /\ \E i \in 1..(Len(text) - 2) :
       text[i] = "-" /\ text[i + 1] = "-" /\ text[i + 2] = "-"
  /\ parsed.value.fullArticle.mainContent = text

\* C9: for a document made of a title line, a labeled meta line, labeled
\* category and tag lines, a delimiter line and a body with N heading lines
\* of level 2..6, the parser (when nothing fails underneath it) returns
\* that title as titles[0], that meta description, and exactly the N
\* headings in document order, each with its marker length as level and a
\* non-empty description.
C9_DocumentRoundTrip ==
  (pc = "done" /\ doc.given /\ ~parsed.threw) =>
    LET hs == DocHeadings(doc)
        v == parsed.value
    IN /\ v.titles = <<doc.title>>
       /\ v.metaDescriptions = <<doc.meta>>
       /\ Len(v.headings) = Len(hs)
       /\ \A i \in 1..Len(hs) :
            /\ v.headings[i].level = hs[i].h
            /\ v.headings[i].text = hs[i].t
            /\ v.headings[i].description # <<>>

\* C9 witness: a parsed document whose body has three heading lines of
\* different levels.
C9_Witness ==
  /\ pc = "done" /\ doc.given /\ ~parsed.threw
  /\ Len(DocHeadings(doc)) = 3
  /\ Len(parsed.value.headings) = 3
  /\ parsed.value.headings[1].level # parsed.value.headings[3].level

\* C10 (as stated): when extraction fails, the returned suggestion has the
\* placeholder title, empty categories, tags, headings and metaDescriptions,
\* and fullArticle.mainContent equal to the raw text.
C10_FallbackAllEmpty ==
  (pc = "done" /\ parsed.threw) =>
    /\ parsed.value.titles = <<ErrorTitle>>
    /\ parsed.value.categories = [existing |-> <<>>, new |-> <<>>]
    /\ parsed.value.tags = [existing |-> <<>>, new |-> <<>>]
    /\ parsed.value.headings = <<>>
    /\ parsed.value.metaDescriptions = <<>>
    /\ parsed.value.fullArticle.mainContent = text

\* C10 (amended): when extraction fails, the returned suggestion has the
\* placeholder title, empty categories, tags and headings, exactly one
\* meta description, the placeholder failure message, and
\* fullArticle.mainContent equal to the raw text.
C10_FallbackPlaceholderMeta ==
  (pc = "done" /\ parsed.threw) =>
    /\ parsed.value.titles = <<ErrorTitle>>
    /\ parsed.value.categories = [existing |-> <<>>, new |-> <<>>]
    /\ parsed.value.tags = [existing |-> <<>>, new |-> <<>>]
    /\ parsed.value.headings = <<>>
    /\ parsed.value.metaDescriptions = <<ErrorMeta>>
    /\ parsed.value.fullArticle.mainContent = text

\* C10 witness: the extraction of a document with headings failed and the
\* fallback value was returned.
C10_Witness ==
  /\ pc = "done" /\ parsed.threw /\ doc.given
  /\ Len(DocHeadings(doc)) > 0
  /\ parsed.value.titles = <<ErrorTitle>>

----------------------------------------------------------------------------
(* Prompt history store (the promptHistory service).  The persisted value  *)
(* is the list of well-formed records it holds (history), whether it also  *)
(* holds a malformed entry that JSON.parse rejects (unparsable), and        *)
(* whether the next localStorage.setItem throws (quotaExceeded).  In       *)
(* SpecHist reads and writes succeed; SpecStore adds the failures.          *)

MaxIds == 2
MaxOps == 3

\* null and undefined values, one per type of field
NullId == 0
Undefined == "undefined"
NoSeoMetrics == [defined |-> FALSE]
NoRating == 0

\* new Date(t).toISOString() and new Date(iso).getTime(): the ISO string
\* keeps the seconds and the milliseconds apart
toISOString(t) == [sec |-> t \div 1000, ms |-> t % 1000]
getTime(iso) == iso.sec * 1000 + iso.ms

\* inputs
AddData ==
  {[originalPrompt |-> "p1", siteId |-> "s1", modelUsed |-> ProModel],
   [originalPrompt |-> "p2", siteId |-> "s1", modelUsed |-> ProModel],
   [originalPrompt |-> "p1", siteId |-> "s2", modelUsed |-> FlashModel]}
Articles ==
  {[articleId |-> "a1", status |-> "draft"],
   [articleId |-> "a1", status |-> "published"],
   [articleId |-> "a2", status |-> "draft"]}
Scores == {40}
Ratings == {5}
HistDeltas == {4999, 25001}
Ids == 1..MaxIds

\* the DraftArticle values passed to linkArticleToPromptHistory: seoScore 0
\* stands for a draft without a score, keywords not defined for one without
\* keywords (an empty list is a value), aiSuggestionId NullId for one
\* without a suggestion
Drafts ==
  {[id |-> "a1", status |-> "draft", seoScore |-> 40, keywords |-> [defined |-> TRUE, terms |-> <<"k">>],
    aiSuggestionId |-> NullId],
   [id |-> "a1", status |-> "draft", seoScore |-> 40, keywords |-> [defined |-> FALSE],
    aiSuggestionId |-> NullId],
   [id |-> "a1", status |-> "ready_to_publish", seoScore |-> 0, keywords |-> [defined |-> TRUE, terms |-> <<>>],
    aiSuggestionId |-> 1],
   [id |-> "a2", status |-> "draft", seoScore |-> 40, keywords |-> [defined |-> TRUE, terms |-> <<>>],
    aiSuggestionId |-> NullId]}

\* an id that addPromptHistory does not give
ForeignId == MaxIds + 1

\* the lists another module passes to savePromptHistory when the store
\* holds h: none, and h behind a copy of its first record under another id
SavedLists(h) ==
  {<<>>} \cup (IF h # <<>> THEN {<<[h[1] EXCEPT !.id = ForeignId]>> \o h} ELSE {})

\* the Partial<PromptHistory> values passed to updatePromptHistory at time t
Updates(t) ==
  {[originalPrompt |-> "p1"],
   [generatedAt |-> toISOString(t)],
   [resultingArticles |-> <<[articleId |-> "a1", status |-> "draft"],
                            [articleId |-> "a1", status |-> "draft"]>>]}

\* lines 2050-2061: JSON.parse of the stored text; a text that does not
\* parse is answered by the catch block with []
getPromptHistory == IF unparsable THEN <<>> ELSE history

\* lines 2066-2072: setItem replaces the stored text; when it throws the
\* catch block logs the error and the stored text stays
savePromptHistory(h) ==
  IF quotaExceeded THEN UNCHANGED <<history, unparsable>>
  ELSE history' = h /\ unparsable' = FALSE

\* variant of FindIndex that finds nothing
FindIndexNever(h, id) == 0

\* history.findIndex(item => item.id === id), 1-based, 0 when absent
FindIndex(h, id) ==
  IF \E i \in 1..Len(h) : h[i].id = id
  THEN SetMin({i \in 1..Len(h) : h[i].id = id})
  ELSE 0

\* observer: some stored record has this id
Stored(id) == \E i \in 1..Len(history) : history[i].id = id

\* variant of IsRecentDuplicate with a 5-second window
IsRecentDuplicateShort(item, data, t) ==
  /\ item.originalPrompt = data.originalPrompt
  /\ item.siteId = data.siteId
  /\ item.modelUsed = data.modelUsed
  /\ (t - getTime(item.generatedAt)) < 5000

\* the condition of the find of lines 2118-2123
IsRecentDuplicate(item, data, t) ==
  /\ item.originalPrompt = data.originalPrompt
  /\ item.siteId = data.siteId
  /\ item.modelUsed = data.modelUsed
  /\ (t - getTime(item.generatedAt)) < 30000

FindRecentDuplicate(h, data, t) ==
  IF \E i \in 1..Len(h) : IsRecentDuplicate(h[i], data, t)
  THEN SetMin({i \in 1..Len(h) : IsRecentDuplicate(h[i], data, t)})
  ELSE 0

\* variant of IsDuplicate without the 5-second rule
IsDuplicateNever(t) == FALSE

\* lines 2102-2104
IsDuplicate(t) ==
  lastPromptTimestamp > 0 /\ (t - lastPromptTimestamp) < 5000

\* lines 2132-2148
NewHistory(id, data, t) ==
  [id |-> id,
   originalPrompt |-> data.originalPrompt,
   siteId |-> data.siteId,
   modelUsed |-> data.modelUsed,
   generatedAt |-> toISOString(t),
   resultingArticles |-> <<>>,
   seoMetrics |-> NoSeoMetrics,
   userRating |-> NoRating,
   userNotes |-> Undefined]

\* the fields of a record
RecordFields ==
  {"id", "originalPrompt", "siteId", "modelUsed", "generatedAt", "resultingArticles",
   "seoMetrics", "userRating", "userNotes"}

\* variant of Unshift that appends (history.push)
UnshiftAtEnd(h, r) == Append(h, r)

\* history.unshift(newHistory)
Unshift(h, r) == <<r>> \o h

\* { ...history[index], ...updates }
Merge(r, updates) ==
  [f \in DOMAIN r |-> IF f \in DOMAIN updates THEN updates[f] ELSE r[f]]

\* what the observers keep of a call once the next one has been made
Brief(c) ==
  IF c.op = "add"
  THEN [op |-> "add", data |-> c.data, at |-> c.at, ret |-> c.ret,
        created |-> c.created, lenBefore |-> c.lenBefore]
  ELSE [op |-> c.op]

\* the observers of one operation: its arguments and result c, the length
\* of the store before it and whether it left the store as it was
Observe(c) ==
  /\ call' = c @@ [lenBefore |-> Len(history),
                   storeUnchanged |-> (history' = history /\ unparsable' = unparsable),
                   retStored |-> (/\ c.op = "add"
                                  /\ ~unparsable'
                                  /\ \E j \in 1..Len(history') : history'[j].id = c.ret)]
  /\ prevCall' = Brief(call)
  /\ lastAdd' = IF c.op = "add" THEN Brief(call') ELSE lastAdd
  /\ ops < MaxOps
  /\ ops' = ops + 1
  /\ UNCHANGED <<now, ticks, rlVars, parseVars, pureVars>>

\* variant of RememberedId that does not look the record up
RememberedIdUnchecked(h) == lastPromptHistoryId

\* lines 2108-2112: the id of the remembered record when the store holds it
RememberedId(h) ==
  IF FindIndex(h, lastPromptHistoryId) # 0
  THEN h[FindIndex(h, lastPromptHistoryId)].id
  ELSE NullId

addPromptHistory(data) ==
  LET existing == RememberedId(getPromptHistory)
      recentDuplicate == FindRecentDuplicate(getPromptHistory, data, now)
      seen == [op |-> "add", data |-> data, at |-> now, prior |-> lastAdd,
               priorStored |-> (lastAdd.op = "add" /\ FindIndex(history, lastAdd.ret) # 0),
               raised |-> FALSE,
               keptAll |-> (\A i \in 1..Len(history) :
                              \E j \in 1..Len(history') : history'[j] = history[i]),
               cacheUnchanged |-> (/\ lastPromptHistoryId' = lastPromptHistoryId
                                   /\ lastPromptTimestamp' = lastPromptTimestamp)]
  IN IF IsDuplicate(now) /\ lastPromptHistoryId # NullId /\ existing # NullId
     THEN \* lines 2106-2113: return the remembered record
          /\ UNCHANGED <<history, unparsable, quotaExceeded, lastPromptHistoryId,
                         lastPromptTimestamp, nextId, updatedFields>>
          /\ Observe(seen @@ [ret |-> existing, created |-> FALSE,
                              saveFailed |-> FALSE, rule |-> 1])
     ELSE IF recentDuplicate # 0
     THEN \* lines 2125-2130: return the record found by the scan
          /\ lastPromptHistoryId' = getPromptHistory[recentDuplicate].id
          /\ lastPromptTimestamp' = now
          /\ UNCHANGED <<history, unparsable, quotaExceeded, nextId, updatedFields>>
          /\ Observe(seen @@ [ret |-> getPromptHistory[recentDuplicate].id,
                              created |-> FALSE, saveFailed |-> FALSE, rule |-> 2])
     ELSE \* lines 2132-2158: a new record
          /\ nextId <= MaxIds
          /\ savePromptHistory(Unshift(getPromptHistory, NewHistory(nextId, data, now)))
          /\ lastPromptHistoryId' = nextId
          /\ lastPromptTimestamp' = now
          /\ nextId' = nextId + 1
          /\ UNCHANGED <<quotaExceeded, updatedFields>>
          /\ Observe(seen @@ [ret |-> nextId, created |-> TRUE,
                              saveFailed |-> quotaExceeded, rule |-> 0])

\* lines 2164-2174, without the observers
UpdateStore(id, updates) ==
  LET index == FindIndex(getPromptHistory, id)
  IN IF index = 0 THEN UNCHANGED <<history, unparsable>>
     ELSE savePromptHistory([getPromptHistory EXCEPT ![index] = Merge(@, updates)])

updatePromptHistory(id, updates) ==
  /\ UpdateStore(id, updates)
  /\ updatedFields' = IF FindIndex(getPromptHistory, id) = 0 \/ quotaExceeded
                      THEN updatedFields
                      ELSE updatedFields \cup DOMAIN updates
  /\ UNCHANGED <<quotaExceeded, lastPromptHistoryId, lastPromptTimestamp, nextId>>
  /\ Observe([op |-> "update", id |-> id, stored |-> Stored(id),
              ret |-> FindIndex(getPromptHistory, id) # 0])

\* lines 2179-2187
deletePromptHistory(id) ==
  LET filtered == SelectSeq(getPromptHistory, LAMBDA item : item.id # id)
  IN /\ IF Len(filtered) = Len(getPromptHistory) THEN UNCHANGED <<history, unparsable>>
        ELSE savePromptHistory(filtered)
     /\ UNCHANGED <<quotaExceeded, lastPromptHistoryId, lastPromptTimestamp, nextId,
                    updatedFields>>
     /\ Observe([op |-> "delete", id |-> id, stored |-> Stored(id),
                 ret |-> Len(filtered) # Len(getPromptHistory)])

\* variant of Exists without the articleId check
ExistsNever(r, article) == FALSE

\* lines 2207-2209
Exists(r, article) ==
  \E k \in 1..Len(r.resultingArticles) :
    r.resultingArticles[k].articleId = article.articleId

\* lines 2192-2217
addResultingArticle(promptId, article) ==
  LET index == FindIndex(getPromptHistory, promptId)
  IN /\ IF index = 0 \/ Exists(getPromptHistory[index], article)
        THEN UNCHANGED <<history, unparsable>>
        ELSE savePromptHistory(
               [getPromptHistory EXCEPT ![index].resultingArticles = Append(@, article)])
     /\ UNCHANGED <<quotaExceeded, lastPromptHistoryId, lastPromptTimestamp, nextId,
                    updatedFields>>
     /\ Observe([op |-> "addArticle", id |-> promptId, article |-> article,
                 stored |-> Stored(promptId),
                 ret |-> index # 0,
                 linkedBefore |->
                   (index # 0 /\ \E k \in 1..Len(getPromptHistory[index].resultingArticles) :
                      getPromptHistory[index].resultingArticles[k].articleId
                        = article.articleId)])

\* lines 2222-2227
addSEOMetricsToHistory(promptId, score) ==
  /\ UpdateStore(promptId, [seoMetrics |-> [defined |-> TRUE, overallScore |-> score]])
  /\ UNCHANGED <<quotaExceeded, lastPromptHistoryId, lastPromptTimestamp, nextId,
                 updatedFields>>
  /\ Observe([op |-> "addSEO", id |-> promptId, stored |-> Stored(promptId),
              ret |-> FindIndex(getPromptHistory, promptId) # 0])

\* lines 2232-2241
addUserRating(promptId, rating, notes) ==
  /\ UpdateStore(promptId, [userRating |-> rating, userNotes |-> notes])
  /\ UNCHANGED <<quotaExceeded, lastPromptHistoryId, lastPromptTimestamp, nextId,
                 updatedFields>>
  /\ Observe([op |-> "addRating", id |-> promptId, stored |-> Stored(promptId),
              ret |-> FindIndex(getPromptHistory, promptId) # 0])

\* lines 2431-2444: the record a draft is linked to: the promptId given,
\* or else the record whose id is the draft's aiSuggestionId (the suggestion
\* of a record made by this service is an object, never equal to an id)
TargetPromptId(h, draft, promptId) ==
  IF promptId # NullId THEN promptId
  ELSE IF draft.aiSuggestionId # NullId /\ FindIndex(h, draft.aiSuggestionId) # 0
  THEN h[FindIndex(h, draft.aiSuggestionId)].id
  ELSE NullId

\* lines 2201-2214 on the list that was read
ArticleLinked(h, promptId, article) ==
  LET index == FindIndex(h, promptId)
  IN IF index = 0 \/ Exists(h[index], article) THEN h
     ELSE [h EXCEPT ![index].resultingArticles = Append(@, article)]

\* line 2455: draft.seoScore && draft.keywords
HasSeo(draft) == draft.seoScore # 0 /\ draft.keywords.defined

\* lines 2427-2477: addResultingArticle, then addSEOMetricsToHistory when
\* the draft has a score and keywords, in one call. Each of the two reads
\* the stored text and calls setItem with a text of its own, so that the
\* two calls fail apart: the first setItem of the call throws when
\* quotaExceeded, a second one when secondThrows
linkArticleToPromptHistory(draft, promptId, secondThrows) ==
  LET h0 == getPromptHistory
      target == TargetPromptId(h0, draft, promptId)
      article == [articleId |-> draft.id, status |-> draft.status]
      linking == FindIndex(h0, target) # 0 /\ ~Exists(h0[FindIndex(h0, target)], article)
      linked == linking /\ ~quotaExceeded
      h1 == IF linked THEN ArticleLinked(h0, target, article) ELSE h0
      index == FindIndex(h1, target)
      rating == target # NullId /\ HasSeo(draft) /\ index # 0
      rated == rating /\ ~(IF linking THEN secondThrows ELSE quotaExceeded)
      h2 == IF rated
            THEN [h1 EXCEPT ![index] =
                    Merge(@, [seoMetrics |-> [defined |-> TRUE,
                                              overallScore |-> draft.seoScore]])]
            ELSE h1
  IN /\ IF linked \/ rated
        THEN history' = h2 /\ unparsable' = FALSE
        ELSE UNCHANGED <<history, unparsable>>
     /\ UNCHANGED <<quotaExceeded, lastPromptHistoryId, lastPromptTimestamp, nextId,
                    updatedFields>>
     /\ Observe([op |-> "link", draft |-> draft, id |-> promptId, target |-> target,
                 setItemCalls |-> (IF linking THEN 1 ELSE 0) + (IF rating THEN 1 ELSE 0),
                 setItemThrew |-> (IF linking /\ ~linked THEN 1 ELSE 0)
                                    + (IF rating /\ ~rated THEN 1 ELSE 0)])

\* lines 2066-2072 called by another module (the function is exported):
\* the list given replaces the stored one
savePromptHistoryCall(h) ==
  /\ savePromptHistory(h)
  /\ updatedFields' = IF quotaExceeded THEN updatedFields
                      ELSE updatedFields \cup RecordFields
  /\ UNCHANGED <<quotaExceeded, lastPromptHistoryId, lastPromptTimestamp, nextId>>
  /\ Observe([op |-> "save", list |-> h])

TickHist(d) ==
  /\ ticks < MaxTicks
  /\ now' = now + d
  /\ ticks' = ticks + 1
  /\ UNCHANGED <<rlVars, parseVars, histVars, pureVars>>

InitHist ==
  /\ now = Epoch
  /\ ticks = 0
  /\ RLIdle
  /\ ParseIdle
  /\ HistIdle
  /\ PureIdle

NextHist ==
  \/ \E data \in AddData : addPromptHistory(data)
  \/ \E id \in Ids, u \in Updates(now) : updatePromptHistory(id, u)
  \/ \E id \in Ids : deletePromptHistory(id)
  \/ \E id \in Ids, a \in Articles : addResultingArticle(id, a)
  \/ \E id \in Ids, sc \in Scores : addSEOMetricsToHistory(id, sc)
  \/ \E id \in Ids, r \in Ratings : addUserRating(id, r, Undefined)
  \/ \E draft \in Drafts, id \in Ids \cup {NullId} :
       linkArticleToPromptHistory(draft, id, FALSE)
  \/ \E h \in SavedLists(getPromptHistory) : savePromptHistoryCall(h)
  \/ \E d \in HistDeltas : TickHist(d)

SpecHist == InitHist /\ [][NextHist]_vars

----------------------------------------------------------------------------
(* Prompt history store with a failing localStorage *)

\* a caller reads the store (lines 2050-2061); nothing is written
getPromptHistoryCall ==
  /\ UNCHANGED <<history, unparsable, quotaExceeded, lastPromptHistoryId,
                 lastPromptTimestamp, nextId, updatedFields>>
  /\ Observe([op |-> "get", ret |-> getPromptHistory, raised |-> FALSE,
              malformed |-> unparsable, wellFormed |-> history])

\* the environment: the stored text is damaged (a truncated or foreign
\* write), so that it holds the records it held and an entry that does not
\* parse
StorageDamaged ==
  /\ history # <<>>
  /\ ~unparsable
  /\ unparsable' = TRUE
  /\ UNCHANGED <<now, ticks, rlVars, parseVars, pureVars, history, quotaExceeded,
                 lastPromptHistoryId, lastPromptTimestamp, nextId, ops,
                 updatedFields, lastAdd, call, prevCall>>

\* the environment: the storage quota is used up, or freed again
QuotaChanges ==
  /\ quotaExceeded' = ~quotaExceeded
  /\ UNCHANGED <<now, ticks, rlVars, parseVars, pureVars, history, unparsable,
                 lastPromptHistoryId, lastPromptTimestamp, nextId, ops,
                 updatedFields, lastAdd, call, prevCall>>

NextStore ==
  \/ \E data \in AddData : addPromptHistory(data)
  \/ getPromptHistoryCall
  \/ \E draft \in {d \in Drafts : HasSeo(d) /\ d.id = "a1"}, id \in Ids,
          secondThrows \in BOOLEAN :
       linkArticleToPromptHistory(draft, id, secondThrows)
  \/ \E h \in SavedLists(getPromptHistory) : savePromptHistoryCall(h)
  \/ StorageDamaged
  \/ QuotaChanges
  \/ \E d \in HistDeltas : TickHist(d)

SpecStore == InitHist /\ [][NextStore]_vars

----------------------------------------------------------------------------
(* Queries on the prompt history store: filterPromptHistory and            *)
(* calculatePromptHistoryStats.  Both read the store and write nothing.    *)

MaxStoreLen == 2

\* an optional number or boolean: undefined, or a value
None == [defined |-> FALSE]
Some(v) == [defined |-> TRUE, value |-> v]

\* if (x) on an optional string: undefined and '' are falsy
Truthy(x) == x # Undefined /\ x # ""

\* new Date(a) <= new Date(b) on two ISO strings
DateLE(a, b) == a.sec < b.sec \/ (a.sec = b.sec /\ a.ms <= b.ms)

\* dates of stored records: 1970-01-12T13:46:40Z, 1970-01-31T20:00:00Z and
\* 1970-02-20T00:00:00Z
Date1 == [sec |-> 1000000, ms |-> 0]
Date2 == [sec |-> 30 * 86400 + 20 * 3600, ms |-> 0]
Date3 == [sec |-> 50 * 86400, ms |-> 0]

\* a stored record with everything the queries read: the record
\* addPromptHistory builds (lines 2132-2148), the articles linked, the SEO
\* metrics and the rating added since
StoredRecord(data, date, articles, seoMetrics, rating, extra) ==
  [originalPrompt |-> data.originalPrompt,
   siteId |-> data.siteId,
   modelUsed |-> data.modelUsed,
   generatedAt |-> date,
   resultingArticles |-> articles,
   seoMetrics |-> seoMetrics,
   userRating |-> rating,
   userNotes |-> Undefined,
   fullArticle |-> extra.fullArticle,
   processingTime |-> extra.processingTime,
   tokensUsed |-> extra.tokensUsed,
   estimatedCost |-> extra.estimatedCost]

Score(n) == [defined |-> TRUE, overallScore |-> n]
Article1 == [articleId |-> "a1", status |-> "draft"]
Article2 == [articleId |-> "a2", status |-> "published"]

\* suggestion.fullArticle by the lengths of its three texts, the processing
\* time in ms, the tokens used and the cost in hundredths of a dollar
\* (CreateArticle.tsx passes tokensUsed 2000 and estimatedCost 0.01)
Extra1 == [fullArticle |-> [defined |-> TRUE, introduction |-> 10, mainContent |-> 100,
                            conclusion |-> 5],
           processingTime |-> 1500, tokensUsed |-> 2000, estimatedCost |-> 1]
Extra2 == [fullArticle |-> [defined |-> FALSE],
           processingTime |-> 0, tokensUsed |-> 2000, estimatedCost |-> 1]

StoredRecords ==
  {StoredRecord([originalPrompt |-> "p1", siteId |-> "s1", modelUsed |-> ProModel],
                Date1, <<>>, NoSeoMetrics, NoRating, Extra1),
   StoredRecord([originalPrompt |-> "p2", siteId |-> "s1", modelUsed |-> ProModel],
                Date2, <<Article1>>, Score(40), 5, Extra2),
   StoredRecord([originalPrompt |-> "p1", siteId |-> "s1", modelUsed |-> FlashModel],
                Date2, <<>>, Score(80), 5, Extra1),
   StoredRecord([originalPrompt |-> "p1", siteId |-> "s2", modelUsed |-> FlashModel],
                Date3, <<Article1, Article2>>, Score(80), NoRating, Extra1),
   StoredRecord([originalPrompt |-> "p2", siteId |-> "s2", modelUsed |-> ProModel],
                Date3, <<Article2>>, NoSeoMetrics, 3, Extra2)}

\* the stores: up to MaxStoreLen records, most recent first as unshift
\* leaves them, the ids in order of creation
WithIds(h) == [i \in 1..Len(h) |-> h[i] @@ [id |-> Len(h) - i + 1]]

Stores ==
  {WithIds(h) : h \in {g \in UNION {[1..n -> StoredRecords] : n \in 0..MaxStoreLen} :
                         \A i \in 1..(Len(g) - 1) :
                           DateLE(g[i + 1].generatedAt, g[i].generatedAt)}}

\* the PromptHistoryFilter values
Filters ==
  [dateRange : {None, [defined |-> TRUE, from |-> Date1, to |-> Date2],
                [defined |-> TRUE, from |-> Date2, to |-> Date3]},
   siteId : {Undefined, "", "s1"},
   modelUsed : {Undefined, ProModel},
   minSeoScore : {None, Some(0), Some(50)},
   maxSeoScore : {None, Some(40)},
   hasArticles : {None, Some(TRUE), Some(FALSE)},
   userRating : {None, Some(5)}]

\* lines 2252-2260
FilterDateRange(h, filter) ==
  IF filter.dateRange.defined
  THEN SelectSeq(h, LAMBDA item :
         /\ DateLE(filter.dateRange.from, item.generatedAt)
         /\ DateLE(item.generatedAt, filter.dateRange.to))
  ELSE h

\* variant of FilterSiteId that does not filter
FilterSiteIdSkipped(h, filter) == h

\* lines 2263-2265
FilterSiteId(h, filter) ==
  IF Truthy(filter.siteId)
  THEN SelectSeq(h, LAMBDA item : item.siteId = filter.siteId)
  ELSE h

\* lines 2268-2270
FilterModelUsed(h, filter) ==
  IF Truthy(filter.modelUsed)
  THEN SelectSeq(h, LAMBDA item : item.modelUsed = filter.modelUsed)
  ELSE h

\* lines 2273-2291
FilterSeoScore(h, filter) ==
  IF filter.minSeoScore.defined \/ filter.maxSeoScore.defined
  THEN SelectSeq(h, LAMBDA item :
         IF ~item.seoMetrics.defined THEN FALSE
         ELSE /\ (filter.minSeoScore.defined
                    => item.seoMetrics.overallScore >= filter.minSeoScore.value)
              /\ (filter.maxSeoScore.defined
                    => item.seoMetrics.overallScore <= filter.maxSeoScore.value))
  ELSE h

\* lines 2294-2299
FilterHasArticles(h, filter) ==
  IF filter.hasArticles.defined
  THEN SelectSeq(h, LAMBDA item :
         IF filter.hasArticles.value THEN Len(item.resultingArticles) > 0
         ELSE ~(Len(item.resultingArticles) > 0))
  ELSE h

\* lines 2302-2304
FilterUserRating(h, filter) ==
  IF filter.userRating.defined
  THEN SelectSeq(h, LAMBDA item : item.userRating = filter.userRating.value)
  ELSE h

\* the value returned by filterPromptHistory: the filters one after another
FilterResult(h, filter) ==
  FilterUserRating(
    FilterHasArticles(
      FilterSeoScore(
        FilterModelUsed(
          FilterSiteId(
            FilterDateRange(h, filter), filter), filter), filter), filter), filter)

\* lines 2246-2306.  One query is followed per behaviour: a query writes
\* nothing that a later one reads.
filterPromptHistory(filter) ==
  /\ query = NoQuery
  /\ UNCHANGED <<seo, fmt, gen, now, ticks, rlVars, parseVars, histVars>>
  /\ query' = [op |-> "filter", filter |-> filter,
               result |-> FilterResult(getPromptHistory, filter),
               storeUnchanged |-> (history' = history /\ unparsable' = unparsable)]

\* a / b, a quotient the code does not round, as a fraction
Ratio(a, b) == [num |-> a, den |-> b]
Zero == Ratio(0, 1)

\* Math.round(a / b) for a >= 0 and b > 0
RoundDiv(a, b) == (2 * a + b) \div (2 * b)

\* history.reduce((sum, item) => sum + f(item), 0)
RECURSIVE Reduce(_, _)
Reduce(f(_), h) == IF h = <<>> THEN 0 ELSE f(Head(h)) + Reduce(f, Tail(h))

\* the local time zone is the one of the runtime: seconds east of UTC of
\* UTC, of Tokyo and of Los Angeles, none of which changes its offset over
\* the dates of the stores
TimezoneOffsets == {0, 9 * 3600, 0 - 8 * 3600}

\* days before each month of a year that is not a leap year (1969 to 1971)
DaysBefore == <<0, 31, 59, 90, 120, 151, 181, 212, 243, 273, 304, 334, 365>>

\* lines 2393-2394: `${date.getFullYear()}-${month, two digits}` in the
\* local time of a runtime TimezoneOffset seconds east of UTC, as the pair of
\* the year and the month
MonthKey(iso, TimezoneOffset) ==
  LET day == (iso.sec + TimezoneOffset) \div 86400
      dayOfYear == day % 365
  IN [year |-> 1970 + day \div 365,
      month |-> CHOOSE m \in 1..12 :
                  DaysBefore[m] <= dayOfYear /\ dayOfYear < DaysBefore[m + 1]]

\* variant of ModelStep that counts a model once
ModelStepOnce(stats, item) ==
  [k \in DOMAIN stats \cup {item.modelUsed} |->
     [usage |-> 1, totalProcessingTime |-> 0, totalCost |-> 0,
      totalSeoScore |-> 0, seoCount |-> 0]]

\* lines 2353-2368: one step of the forEach that fills modelStats
ModelStep(stats, item) ==
  LET m == item.modelUsed
      cur == IF m \in DOMAIN stats THEN stats[m]
             ELSE [usage |-> 0, totalProcessingTime |-> 0, totalCost |-> 0,
                   totalSeoScore |-> 0, seoCount |-> 0]
      upd == [usage |-> cur.usage + 1,
              totalProcessingTime |-> cur.totalProcessingTime + item.processingTime,
              totalCost |-> cur.totalCost + item.estimatedCost,
              totalSeoScore |-> cur.totalSeoScore
                 + (IF item.seoMetrics.defined THEN item.seoMetrics.overallScore ELSE 0),
              seoCount |-> cur.seoCount + (IF item.seoMetrics.defined THEN 1 ELSE 0)]
  IN [k \in DOMAIN stats \cup {m} |-> IF k = m THEN upd ELSE stats[k]]

RECURSIVE ModelFold(_, _)
ModelFold(h, stats) ==
  IF h = <<>> THEN stats ELSE ModelFold(Tail(h), ModelStep(stats, Head(h)))

\* lines 2377-2388: the averages of one model
ModelAverages(st) ==
  [usage |-> st.usage,
   averageProcessingTime |->
     IF st.usage > 0 THEN Ratio(st.totalProcessingTime, st.usage) ELSE Zero,
   averageCost |-> IF st.usage > 0 THEN Ratio(st.totalCost, st.usage) ELSE Zero,
   averageSeoScore |->
     IF st.seoCount > 0 THEN Ratio(st.totalSeoScore, st.seoCount) ELSE Zero]

\* lines 2392-2408: one step of the forEach that fills monthlyStats
MonthStep(stats, item, TimezoneOffset) ==
  LET key == MonthKey(item.generatedAt, TimezoneOffset)
      cur == IF key \in DOMAIN stats THEN stats[key]
             ELSE [promptCount |-> 0, articlesCreated |-> 0, tokensUsed |-> 0,
                   cost |-> 0]
      upd == [promptCount |-> cur.promptCount + 1,
              articlesCreated |-> cur.articlesCreated + Len(item.resultingArticles),
              tokensUsed |-> cur.tokensUsed + item.tokensUsed,
              cost |-> cur.cost + item.estimatedCost]
  IN [k \in DOMAIN stats \cup {key} |-> IF k = key THEN upd ELSE stats[k]]

RECURSIVE MonthFold(_, _, _)
MonthFold(h, stats, TimezoneOffset) ==
  IF h = <<>> THEN stats
  ELSE MonthFold(Tail(h), MonthStep(stats, Head(h), TimezoneOffset), TimezoneOffset)

\* lines 2330-2335: the length of the joined text of one record
FullTextLength(item) ==
  IF ~item.fullArticle.defined THEN 0
  ELSE item.fullArticle.introduction + 1 + item.fullArticle.mainContent + 1
         + item.fullArticle.conclusion

OverallScoreOf(item) == item.seoMetrics.overallScore
ArticleCount(item) == Len(item.resultingArticles)
TokensOf(item) == item.tokensUsed
CostOf(item) == item.estimatedCost

\* the value returned by calculatePromptHistoryStats (lines 2311-2422)
StatsResult(all, siteId, TimezoneOffset) ==
  LET h == IF Truthy(siteId) THEN SelectSeq(all, LAMBDA item : item.siteId = siteId)
           ELSE all
      historyWithSEO == SelectSeq(h, LAMBDA item : item.seoMetrics.defined)
      modelStats == ModelFold(h, <<>>)
  IN [totalPrompts |-> Len(h),
      successfulPrompts |->
        Len(SelectSeq(h, LAMBDA item : Len(item.resultingArticles) > 0)),
      averageSeoScore |->
        IF Len(historyWithSEO) > 0
        THEN RoundDiv(Reduce(OverallScoreOf, historyWithSEO), Len(historyWithSEO))
        ELSE 0,
      averageWordCount |->
        IF Len(h) > 0 THEN RoundDiv(Reduce(FullTextLength, h), Len(h)) ELSE 0,
      totalArticlesCreated |-> Reduce(ArticleCount, h),
      totalTokensUsed |-> Reduce(TokensOf, h),
      totalCost |-> Reduce(CostOf, h),
      modelStats |-> [m \in DOMAIN modelStats |-> ModelAverages(modelStats[m])],
      monthlyStats |-> MonthFold(h, <<>>, TimezoneOffset)]

calculatePromptHistoryStats(siteId, TimezoneOffset) ==
  /\ query = NoQuery
  /\ UNCHANGED <<seo, fmt, gen, now, ticks, rlVars, parseVars, histVars>>
  /\ query' = [op |-> "stats", siteId |-> siteId, zone |-> TimezoneOffset,
               raised |-> FALSE,
               result |-> StatsResult(getPromptHistory, siteId, TimezoneOffset),
               storeUnchanged |-> (history' = history /\ unparsable' = unparsable)]

InitQuery ==
  /\ now = Epoch
  /\ ticks = 0
  /\ RLIdle
  /\ ParseIdle
  /\ history \in Stores
  /\ unparsable = FALSE
  /\ quotaExceeded = FALSE
  /\ lastPromptHistoryId = 0
  /\ lastPromptTimestamp = 0
  /\ nextId = Len(history) + 1
  /\ ops = 0
  /\ updatedFields = {}
  /\ lastAdd = NoCall
  /\ call = NoCall
  /\ prevCall = NoCall
  /\ PureIdle

NextQuery ==
  \/ \E filter \in Filters : filterPromptHistory(filter)
  \/ \E siteId \in {Undefined, "", "s1", "s2"}, TimezoneOffset \in TimezoneOffsets :
       calculatePromptHistoryStats(siteId, TimezoneOffset)

SpecQuery == InitQuery /\ [][NextQuery]_vars

----------------------------------------------------------------------------
(* SEO scores (lines 1-400).  A text is a list of runs [tok, n]: the token  *)
(* tok written n times.  A token is a literal of the source, named in       *)
(* ASCII:                                                                   *)
(*   "x" a hiragana letter, "digit" a digit, "question" "exclaim" "dot"     *)
(*   the ASCII marks ? ! and ., "maru" the ideographic full stop,           *)
(*   "houhou" (method), "matome" (summary), "muryou" (free of charge),      *)
(*   "kaisetsu" (explanation), "kuwashiku" (in detail): the first           *)
(*   alternatives of the patterns of lines 126-128 and 162-164.             *)

\* the number of UTF-16 code units of a token
TokenWidth ==
  [x |-> 1, digit |-> 1, question |-> 1, exclaim |-> 1, dot |-> 1, maru |-> 1, houhou |-> 2,
   matome |-> 3, muryou |-> 2, kaisetsu |-> 2, kuwashiku |-> 3]

Run(tok, n) == [tok |-> tok, n |-> n]

\* text.length
RECURSIVE TextLength(_)
TextLength(t) ==
  IF t = <<>> THEN 0 ELSE TokenWidth[Head(t).tok] * Head(t).n + TextLength(Tail(t))

\* /(a|b|...)/.test(text) for the tokens of a pattern
Test(t, toks) == \E i \in 1..Len(t) : t[i].tok \in toks /\ t[i].n > 0

\* text.includes(tok written k times)
Includes(t, tok, k) == \E i \in 1..Len(t) : t[i].tok = tok /\ t[i].n >= k

\* Math.min(Math.max(score, 0), 100)
Clamp(score) == Min(Max(score, 0), 100)

\* variant of TitleScore without the points for a digit and a question mark
TitleScoreBlind(title) ==
  IF TextLength(title) = 0 THEN 0
  ELSE Clamp((IF TextLength(title) >= 30 /\ TextLength(title) <= 60 THEN 40 ELSE 10)
             + (IF Test(title, {"exclaim"}) THEN 5 ELSE 0))

\* lines 109-139
TitleScore(title) ==
  IF TextLength(title) = 0 THEN 0
  ELSE LET length == TextLength(title)
           score ==
             (IF length >= 30 /\ length <= 60 THEN 40
              ELSE IF length >= 20 /\ length <= 80 THEN 25
              ELSE 10)
             + (IF Test(title, {"digit"}) THEN 15 ELSE 0)
             + (IF Test(title, {"houhou"}) THEN 10 ELSE 0)
             + (IF Test(title, {"matome"}) THEN 10 ELSE 0)
             + (IF Test(title, {"muryou"}) THEN 10 ELSE 0)
             + (IF Test(title, {"question"}) THEN 10 ELSE 0)
             + (IF Test(title, {"exclaim"}) THEN 5 ELSE 0)
             - (IF length > 100 THEN 20 ELSE 0)
             - (IF Includes(title, "dot", 3) \/ Includes(title, "maru", 3) THEN 10 ELSE 0)
       IN Clamp(score)

\* inputs: the titles are a run of letters followed by some of these runs
TitleFill == {0, 5, 17, 18, 28, 58, 59, 78, 79, 98, 99, 120}
TitleFeatures ==
  <<Run("digit", 1), Run("question", 1), Run("exclaim", 1), Run("dot", 3), Run("houhou", 1),
    Run("matome", 1), Run("muryou", 1)>>

\* the runs of a list at the positions of a set, in order
RECURSIVE Pick(_, _)
Pick(runs, S) ==
  IF runs = <<>> THEN <<>>
  ELSE (IF Len(runs) \in S THEN Pick(SubSeq(runs, 1, Len(runs) - 1), S)
                                  \o <<runs[Len(runs)]>>
        ELSE Pick(SubSeq(runs, 1, Len(runs) - 1), S))

Letters(n) == IF n = 0 THEN <<>> ELSE <<Run("x", n)>>

Titles ==
  {Letters(n) \o Pick(TitleFeatures, S) :
     n \in TitleFill, S \in SUBSET (1..Len(TitleFeatures))}

\* One call is followed per behaviour: the scores depend on the arguments
\* only.
calculateTitleScore(title) ==
  /\ seo = NoSeo
  /\ seo' = [op |-> "title", title |-> title,
             score |-> TitleScore(title)]
  /\ UNCHANGED <<query, fmt, gen, now, ticks, rlVars, parseVars, histVars>>

\* the number of times a token is written in a text
RECURSIVE Occurrences(_, _)
Occurrences(t, tok) ==
  IF t = <<>> THEN 0
  ELSE (IF Head(t).tok = tok THEN Head(t).n ELSE 0) + Occurrences(Tail(t), tok)

\* text.split(tok).length: one piece more than the token is written
SplitLengthOn(t, tok) == Occurrences(t, tok) + 1

\* lines 144-170
MetaDescriptionScore(metaDescription) ==
  IF TextLength(metaDescription) = 0 THEN 0
  ELSE LET length == TextLength(metaDescription)
           score ==
             (IF length >= 120 /\ length <= 160 THEN 50
              ELSE IF length >= 100 /\ length <= 180 THEN 35
              ELSE IF length >= 80 /\ length <= 200 THEN 20
              ELSE 5)
             + (IF Test(metaDescription, {"houhou", "kaisetsu"}) THEN 15 ELSE 0)
             + (IF Test(metaDescription, {"kuwashiku"}) THEN 10 ELSE 0)
             + (IF Test(metaDescription, {"muryou"}) THEN 10 ELSE 0)
             + (IF /\ Includes(metaDescription, "maru", 1)
                   /\ SplitLengthOn(metaDescription, "maru") >= 2
                THEN 10 ELSE 0)
       IN Clamp(score)

\* inputs: letters, some phrases, and sentences closed in several ways
MetaFill == {0, 50, 90, 110, 130, 170, 190, 201}
MetaPhrases == <<Run("houhou", 1), Run("kuwashiku", 1), Run("muryou", 1)>>
MetaSentences ==
  {<<>>, <<Run("maru", 1)>>, <<Run("maru", 2)>>,
   <<Run("maru", 1), Run("x", 3), Run("maru", 1)>>,
   <<Run("maru", 1), Run("x", 3), Run("maru", 1), Run("x", 2), Run("maru", 1)>>,
   <<Run("dot", 2)>>, <<Run("question", 1), Run("exclaim", 1)>>}
Metas ==
  {Letters(n) \o Pick(MetaPhrases, S) \o sentences :
     n \in MetaFill, S \in SUBSET (1..Len(MetaPhrases)), sentences \in MetaSentences}

calculateMetaDescriptionScore(metaDescription) ==
  /\ seo = NoSeo
  /\ seo' = [op |-> "meta", metaDescription |-> metaDescription,
             score |-> MetaDescriptionScore(metaDescription)]
  /\ UNCHANGED <<query, fmt, gen, now, ticks, rlVars, parseVars, histVars>>

(* A content is a list of HTML elements [tag, words]: <tag>, the words     *)
(* separated by single spaces, </tag>; the tag "" is text without a tag.   *)
(* The words are runs [tok, n] of terms; a term is an ASCII word, but for  *)
(* "kiji", a word written in kanji.                                        *)

\* the number of characters of a term that the class \w matches
WordChars ==
  [seo |-> 3, SEO |-> 3, guide |-> 5, ai |-> 2, a |-> 1, kiji |-> 0, abs |-> 3,
   key1 |-> 4, key2 |-> 4, key3 |-> 4, key4 |-> 4, key5 |-> 4, key6 |-> 4,
   key7 |-> 4, key8 |-> 4, key9 |-> 4, key10 |-> 5, key11 |-> 5]

\* term.toLowerCase()
ToLowerCase(term) == IF term = "SEO" THEN "seo" ELSE term

Element(tag, words) == [tag |-> tag, words |-> words]

RECURSIVE RunTotal(_)
RunTotal(runs) == IF runs = <<>> THEN 0 ELSE Head(runs).n + RunTotal(Tail(runs))

\* lines 18-26, extractPlainText: the words of the elements, in order
RECURSIVE PlainWords(_)
PlainWords(content) ==
  IF content = <<>> THEN <<>> ELSE Head(content).words \o PlainWords(Tail(content))

\* plainText.split(/\s+/).length: the split of '' is ['']
SplitLength(content) ==
  IF RunTotal(PlainWords(content)) = 0 THEN 1 ELSE RunTotal(PlainWords(content))

CountTag(content, tag) == Len(SelectSeq(content, LAMBDA el : el.tag = tag))

\* lines 31-51
countHeadings(content) ==
  [h1 |-> CountTag(content, "h1"), h2 |-> CountTag(content, "h2"),
   h3 |-> CountTag(content, "h3"), h4 |-> CountTag(content, "h4"),
   h5 |-> CountTag(content, "h5"), h6 |-> CountTag(content, "h6")]

\* lines 175-222
ContentStructureScore(content, headingCount) ==
  IF content = <<>> THEN 0
  ELSE LET wordCount == SplitLength(content)
           totalHeadings == headingCount.h1 + headingCount.h2 + headingCount.h3
                              + headingCount.h4 + headingCount.h5 + headingCount.h6
           paragraphs == CountTag(content, "p")
           score ==
             (IF wordCount >= 1000 /\ wordCount <= 3000 THEN 30
              ELSE IF wordCount >= 500 /\ wordCount <= 5000 THEN 20
              ELSE IF wordCount >= 300 THEN 10
              ELSE 0)
             + (IF totalHeadings >= 3 /\ totalHeadings <= 10 THEN 25
                ELSE IF totalHeadings >= 1 /\ totalHeadings <= 15 THEN 15
                ELSE 0)
             + (IF headingCount.h1 = 1 THEN 15
                ELSE IF headingCount.h1 = 0 THEN 5
                ELSE 0)
             + (IF headingCount.h2 >= 2 /\ headingCount.h2 <= 8 THEN 15
                ELSE IF headingCount.h2 >= 1 THEN 10
                ELSE 0)
             + (IF paragraphs >= 3 /\ paragraphs <= 20 THEN 15
                ELSE IF paragraphs >= 1 THEN 10
                ELSE 0)
       IN Clamp(score)

\* lines 63-68: the words of 3 characters or more with their counts, in
\* the order in which they first occur
RECURSIVE WordCounts(_)
WordCounts(runs) ==
  IF runs = <<>> THEN <<>>
  ELSE LET before == WordCounts(SubSeq(runs, 1, Len(runs) - 1))
           r == runs[Len(runs)]
       IN IF WordChars[r.tok] < 3 \/ r.n = 0 THEN before
          ELSE IF \E i \in 1..Len(before) : before[i].term = r.tok
          THEN [i \in 1..Len(before) |->
                  IF before[i].term = r.tok
                  THEN [term |-> r.tok, count |-> before[i].count + r.n]
                  ELSE before[i]]
          ELSE Append(before, [term |-> r.tok, count |-> r.n])

\* Array.prototype.sort((a, b) => b - a) on the counts: stable
RECURSIVE SortByCount(_)
SortByCount(entries) ==
  IF entries = <<>> THEN <<>>
  ELSE LET sorted == SortByCount(SubSeq(entries, 1, Len(entries) - 1))
           e == entries[Len(entries)]
           k == Cardinality({i \in 1..Len(sorted) : sorted[i].count >= e.count})
       IN SubSeq(sorted, 1, k) \o <<e>> \o SubSeq(sorted, k + 1, Len(sorted))

\* Euclid's algorithm, to reduce frequency / totalWords
RECURSIVE Gcd(_, _)
Gcd(a, b) == IF b = 0 THEN a ELSE Gcd(b, a % b)

\* lines 78 and 83, 95 and 99 in IEEE doubles: (frequency / totalWords) * 100
\* and its product by 100 are each rounded to a double, and where the exact
\* value of the product ends in one half (the reduced denominator is then 32,
\* 160, 800, 4000 or 20000) the double can lie below the half, so that
\* Math.round goes down. The numerators of these ratios, by reduced
\* denominator (no ratio of denominator 32 is concerned):
HalfRoundedDown(denominator) ==
  IF denominator = 160 THEN
    {23, 41, 51, 87, 97}
  ELSE IF denominator = 800 THEN
    {29, 57, 113, 201, 203, 207, 251, 253, 427, 431, 439, 477, 481, 489}
  ELSE IF denominator = 4000 THEN
    {9, 11, 23, 51, 87, 119, 141, 149, 173, 179, 181, 189, 283, 293, 347, 351, 353, 357,
     363, 373, 383, 407, 411, 471, 569, 571, 581, 591, 601, 641, 689, 691, 697, 699,
     701, 709, 711, 719, 721, 729, 731, 741, 751, 761, 817, 819, 827, 947, 1003, 1007,
     1013, 1017, 1027, 1037, 1047, 1057, 1067, 1077, 1253, 1257, 1263, 1267, 1277, 1283,
     1287, 1293, 1297, 1303, 1307, 1313, 1317, 1323, 1327, 1333, 1337, 1347, 1357, 1367,
     1377, 1387, 1397, 1407, 1503, 1507, 1509, 1513, 1517, 1519, 1523, 1527, 1529, 1533,
     1537, 1543, 1547, 1553, 1557, 1563, 1567, 1573, 1577, 1583, 1587, 1597, 1607, 1617,
     1627, 1637, 1759, 1769, 1779, 2009, 2029, 2131, 2139, 2151, 2159, 2179, 2199, 2219,
     2239, 2259, 2279, 2381, 2389, 2401, 2409, 2429, 2449, 2469, 2489, 2509, 2529, 2569,
     2589, 2609, 2629, 2631, 2639, 2643, 2649, 2651, 2659, 2663, 2669, 2671, 2679, 2683,
     2689, 2691, 2699, 2711, 2719, 2731, 2739, 2751, 2759, 2771, 2779, 2791, 2799, 2819,
     2839, 2859, 2879, 2881, 2889, 2893, 2899, 2901, 2909, 2913, 2919, 2921, 2929, 2933,
     2939, 2941, 2949, 2961, 2969, 2981, 2989, 3001, 3009, 3021, 3029, 3041, 3049, 3069,
     3089, 3109, 3129, 3131, 3139, 3143, 3149, 3151, 3159, 3163, 3169, 3171, 3179, 3183,
     3189, 3191, 3199, 3211, 3219, 3231, 3239, 3251, 3259, 3271, 3393, 3413, 3433, 3643,
     3663, 3683, 3893, 3913, 3933}
  ELSE IF denominator = 20000 THEN
    {7, 29, 39, 87, 107, 113, 133, 157, 201, 203, 207, 243, 247, 249, 253, 289, 321,
     331, 341, 377, 387, 389, 411, 423, 431, 457, 469, 477, 481, 489, 503, 549, 607,
     633, 653, 657, 691, 749, 783, 797, 803, 813, 831, 837, 847, 853, 871, 923, 929,
     953, 957, 963, 987, 997, 1003, 1021, 1049, 1239, 1251, 1281, 1289, 1299, 1309,
     1331, 1339, 1349, 1357, 1367, 1389, 1407, 1473, 1483, 1523, 1533, 1541, 1551, 1581,
     1591, 1599, 1601, 1619, 1631, 1633, 1649, 1651, 1667, 1669, 1681, 1687, 1699, 1717,
     1731, 1749, 1767, 1783, 1803, 1833, 1851, 1853, 1871, 1881, 1883, 1901, 1919, 1931,
     1933, 1949, 1951, 1969, 1981, 1987, 1999, 2017, 2031, 2037, 2103, 2153, 2171, 2287,
     2337, 2453, 2471, 2507, 2537, 2557, 2563, 2573, 2587, 2593, 2603, 2623, 2637, 2653,
     2673, 2689, 2703, 2709, 2723, 2739, 2753, 2759, 2789, 2839, 2941, 2961, 2971, 2991,
     3021, 3041, 3071, 3077, 3087, 3107, 3121, 3127, 3137, 3157, 3187, 3193, 3203, 3213,
     3223, 3227, 3237, 3241, 3263, 3273, 3277, 3287, 3313, 3323, 3327, 3337, 3349, 3359,
     3363, 3373, 3387, 3399, 3409, 3423, 3437, 3449, 3459, 3473, 3509, 3523, 3559, 3571,
     3581, 3591, 3631, 3641, 3681, 3691, 3717, 3727, 3737, 3741, 3767, 3777, 3787, 3791,
     3813, 3823, 3827, 3837, 3841, 3863, 3873, 3877, 3887, 3891, 3913, 3923, 3927, 3937,
     3949, 3959, 3963, 3973, 3987, 3999, 4009, 4013, 4023, 4037, 4049, 4059, 4073, 4087,
     4231, 4281, 4317, 4331, 4367, 4453, 4599, 4649, 4699, 4821, 4831, 4881, 4931, 4967,
     5003, 5053, 5257, 5267, 5297, 5307, 5317, 5357, 5367, 5407, 5417, 5457, 5467, 5507,
     5517, 5529, 5539, 5549, 5567, 5579, 5589, 5599, 5617, 5629, 5639, 5649, 5689, 5699,
     5739, 5749, 5751, 5761, 5771, 5781, 5799, 5811, 5821, 5831, 5849, 5861, 5871, 5881,
     5899, 5921, 5931, 5949, 5971, 5981, 6003, 6021, 6031, 6043, 6053, 6071, 6081, 6093,
     6103, 6131, 6143, 6153, 6181, 6193, 6203, 6253, 6303, 6421, 6443, 6493, 6507, 6517,
     6537, 6543, 6557, 6587, 6607, 6637, 6657, 6687, 6707, 6737, 6757, 6759, 6779, 6787,
     6799, 6807, 6809, 6829, 6849, 6857, 6859, 6879, 6899, 6907, 6909, 6929, 6949, 6957,
     6979, 6999, 7001, 7007, 7021, 7029, 7031, 7049, 7051, 7057, 7071, 7079, 7099, 7101,
     7107, 7121, 7129, 7149, 7151, 7157, 7171, 7179, 7199, 7201, 7221, 7229, 7249, 7251,
     7271, 7273, 7279, 7293, 7299, 7301, 7321, 7323, 7343, 7349, 7351, 7371, 7373, 7393,
     7399, 7401, 7421, 7423, 7443, 7449, 7471, 7473, 7493, 7499, 7521, 7523, 7543, 7549,
     7571, 7593, 7621, 7643, 7671, 7693, 7743, 7757, 7767, 7787, 7793, 7807, 7837, 7857,
     7887, 7907, 7937, 7957, 7987, 8007, 8009, 8029, 8037, 8049, 8057, 8059, 8079, 8099,
     8107, 8109, 8129, 8149, 8157, 8159, 8179, 8281, 8523, 8573, 8623, 8673, 8723, 8773,
     9017, 9037, 9087, 9137, 9187, 9237, 9259, 9287, 9309, 9359, 9409, 9531, 9773, 9823,
     9873, 9923, 9973, 10009, 10023, 10067, 10087, 10089, 10109, 10131, 10167, 10187,
     10189, 10209, 10211, 10231, 10267, 10287, 10289, 10309, 10311, 10331, 10387, 10389,
     10409, 10411, 10431, 10433, 10453, 10473, 10487, 10509, 10511, 10531, 10533, 10553,
     10573, 10609, 10631, 10633, 10653, 10673, 10731, 10753, 10773, 10853, 10873, 10877,
     10897, 10917, 10937, 10973, 10997, 11017, 11037, 11073, 11097, 11117, 11137, 11139,
     11159, 11173, 11217, 11219, 11237, 11239, 11259, 11273, 11317, 11337, 11339, 11359,
     11381, 11417, 11437, 11439, 11459, 11461, 11481, 11517, 11537, 11539, 11559, 11561,
     11581, 11637, 11639, 11659, 11661, 11681, 11683, 11703, 11723, 11737, 11759, 11761,
     11781, 11783, 11803, 11823, 11859, 11881, 11883, 11903, 11923, 11981, 12003, 12023,
     12103, 12123, 12127, 12147, 12167, 12187, 12223, 12247, 12267, 12287, 12323, 12347,
     12367, 12387, 12389, 12409, 12423, 12467, 12469, 12487, 12489, 12509, 12523, 12567,
     12587, 12589, 12609, 12631, 12667, 12687, 12689, 12709, 12711, 12731, 12767, 12787,
     12789, 12811, 12823, 12827, 12849, 12867, 12871, 12889, 12893, 12911, 12923, 12927,
     12933, 12949, 12967, 12971, 12973, 12989, 12993, 13011, 13023, 13033, 13067, 13071,
     13073, 13089, 13093, 13111, 13123, 13133, 13167, 13171, 13173, 13189, 13193, 13211,
     13223, 13233, 13267, 13273, 13289, 13311, 13333, 13367, 13373, 13377, 13389, 13411,
     13417, 13433, 13437, 13467, 13473, 13477, 13489, 13511, 13517, 13533, 13573, 13577,
     13589, 13611, 13617, 13633, 13639, 13659, 13673, 13677, 13689, 13699, 13711, 13717,
     13733, 13739, 13773, 13777, 13799, 13817, 13833, 13839, 13873, 13877, 13899, 13917,
     13921, 13933, 13939, 13961, 13973, 13977, 13999, 14017, 14021, 14039, 14061, 14073,
     14077, 14099, 14117, 14121, 14139, 14143, 14161, 14173, 14177, 14183, 14199, 14217,
     14221, 14223, 14239, 14243, 14261, 14273, 14283, 14317, 14321, 14323, 14339, 14343,
     14361, 14373, 14383, 14417, 14421, 14423, 14439, 14443, 14461, 14473, 14483, 14517,
     14523, 14539, 14561, 14583, 14617, 14623, 14627, 14639, 14661, 14667, 14683, 14687,
     14717, 14723, 14727, 14739, 14761, 14767, 14783, 14823, 14827, 14839, 14861, 14867,
     14883, 14889, 14909, 14923, 14927, 14939, 14949, 14961, 14967, 14983, 14989, 15023,
     15027, 15049, 15067, 15083, 15089, 15123, 15127, 15149, 15167, 15171, 15183, 15189,
     15211, 15223, 15227, 15249, 15267, 15271, 15289, 15311, 15323, 15327, 15349, 15367,
     15371, 15389, 15393, 15411, 15423, 15427, 15433, 15449, 15467, 15471, 15473, 15489,
     15493, 15511, 15523, 15533, 15567, 15571, 15573, 15589, 15593, 15611, 15623, 15633,
     15667, 15671, 15673, 15689, 15693, 15711, 15723, 15733, 15767, 15773, 15789, 15811,
     15833, 15867, 15873, 15877, 15889, 15911, 15917, 15933, 15937, 15967, 15973, 15977,
     15989, 16011, 16017, 16033, 16073, 16077, 16089, 16111, 16117, 16133, 16139, 16159,
     16173, 16177, 16189, 16199, 16211, 16217, 16233, 16239, 16273, 16277, 16299, 16317,
     16333, 16339, 16373, 16377, 16399, 16421, 16499, 16521, 16599, 16621, 16643, 16699,
     16721, 16743, 16821, 16843, 16921, 16943, 17187, 17409, 17449, 17549, 17649, 17671,
     17749, 17771, 17849, 17871, 17893, 17949, 17971, 17993, 18071, 18093, 18171, 18193,
     18437, 18659, 18699, 18799, 18899, 18921, 18999, 19021, 19099, 19121, 19143, 19199,
     19221, 19243, 19321, 19343, 19421, 19443, 19687, 19909, 19949}
  ELSE {}

\* Math.round(density * 100) / 100 of (frequency / totalWords) * 100, in
\* hundredths of a percent
Density(frequency, totalWords) ==
  IF totalWords > 0
  THEN LET g == Gcd(frequency, totalWords)
       IN IF frequency > 0 /\ (frequency \div g) \in HalfRoundedDown(totalWords \div g)
          THEN RoundDiv(frequency * 10000, totalWords) - 1
          ELSE RoundDiv(frequency * 10000, totalWords)
  ELSE 0

\* wordCounts[term] || 0
CountOf(wordCounts, term) ==
  IF \E i \in 1..Len(wordCounts) : wordCounts[i].term = term
  THEN wordCounts[CHOOSE i \in 1..Len(wordCounts) : wordCounts[i].term = term].count
  ELSE 0

\* variant of TargetEntries that leaves out the keywords the text does not
\* hold
TargetEntriesFound(targetKeywords, wordCounts, totalWords) ==
  SelectSeq([i \in 1..Len(targetKeywords) |->
               [term |-> targetKeywords[i],
                frequency |-> CountOf(wordCounts, ToLowerCase(targetKeywords[i])),
                density |-> Density(CountOf(wordCounts, ToLowerCase(targetKeywords[i])),
                                    totalWords)]],
            LAMBDA e : e.frequency > 0)

\* lines 74-87: one entry a target keyword
TargetEntries(targetKeywords, wordCounts, totalWords) ==
  [i \in 1..Len(targetKeywords) |->
     [term |-> targetKeywords[i],
      frequency |-> CountOf(wordCounts, ToLowerCase(targetKeywords[i])),
      density |-> Density(CountOf(wordCounts, ToLowerCase(targetKeywords[i])),
                          totalWords)]]

\* lines 55-104; txt is the plain text, a list of runs of words
analyzeKeywords(txt, targetKeywords) ==
  IF RunTotal(txt) = 0 THEN <<>>
  ELSE LET plainText == [i \in 1..Len(txt) |-> Run(ToLowerCase(txt[i].tok), txt[i].n)]
           words == SelectSeq(plainText, LAMBDA r : WordChars[r.tok] >= 2)
           totalWords == RunTotal(words)
           wordCounts == WordCounts(words)
           targets == TargetEntries(targetKeywords, wordCounts, totalWords)
           sorted == SortByCount(wordCounts)
           top == SelectSeq(SubSeq(sorted, 1, Min(10, Len(sorted))),
                            LAMBDA e : \A i \in 1..Len(targetKeywords) :
                                         ToLowerCase(targetKeywords[i]) # e.term)
           topWords == [i \in 1..Len(top) |->
                          [term |-> top[i].term, frequency |-> top[i].count,
                           density |-> Density(top[i].count, totalWords)]]
           keywords == targets \o topWords
       IN SubSeq(keywords, 1, Min(15, Len(keywords)))

\* lines 234-244: the points of the keyword at index (0-based), the
\* density in hundredths of a percent
DensityPoints(density, index) ==
  LET idealDensity == IF index = 0 THEN 200 ELSE 100
  IN IF 2 * density >= idealDensity /\ density <= idealDensity * 2 THEN 15
     ELSE IF 5 * density >= idealDensity /\ density <= idealDensity * 3 THEN 10
     ELSE IF density > 0 THEN 5
     ELSE 0

\* variant of KeywordOptimizationScore without the clamp and with 30 points
\* a keyword
KeywordScoreUnclamped(keywords) == 30 * Len(keywords)

\* lines 227-256
KeywordOptimizationScore(keywords) ==
  IF Len(keywords) = 0 THEN 0
  ELSE LET mainKeywords == SubSeq(keywords, 1, Min(5, Len(keywords)))
           score ==
             SumSeq([i \in 1..Len(mainKeywords) |->
                       DensityPoints(mainKeywords[i].density, i - 1)])
             + (IF Len(keywords) >= 8 THEN 20
                ELSE IF Len(keywords) >= 5 THEN 15
                ELSE IF Len(keywords) >= 3 THEN 10
                ELSE 0)
       IN Clamp(score)

\* lines 261-282: Math.round of the weighted sum.  The sum is made in IEEE
\* doubles, where it differs from the exact (5t + 4m + 7c + 4k) / 20 in one
\* case of scores that are multiples of 5: 90 * 0.35 is 31.499999999999996.
OverallScore(titleScore, metaDescriptionScore, contentStructureScore, keywordOptimizationScore) ==
  IF /\ titleScore = 0 /\ metaDescriptionScore = 0
     /\ contentStructureScore = 90 /\ keywordOptimizationScore = 0
  THEN 31
  ELSE RoundDiv(5 * titleScore + 4 * metaDescriptionScore
                  + 7 * contentStructureScore + 4 * keywordOptimizationScore, 20)

\* lines 287-351: the recommendations, each by a name
generateRecommendations(input, scores) ==
  LET headingCount == countHeadings(input.content)
      totalHeadings == headingCount.h1 + headingCount.h2 + headingCount.h3
                         + headingCount.h4 + headingCount.h5 + headingCount.h6
      If(cond, name) == IF cond THEN <<name>> ELSE <<>>
  IN If(scores.titleScore < 50 /\ TextLength(input.title) < 30, "titleLonger")
     \o If(scores.titleScore < 50 /\ TextLength(input.title) > 80, "titleShorter")
     \o If(scores.titleScore < 50 /\ ~Test(input.title, {"digit"}), "titleDigit")
     \o If(scores.metaDescriptionScore < 50 /\ TextLength(input.metaDescription) < 120,
           "metaLonger")
     \o If(scores.metaDescriptionScore < 50 /\ TextLength(input.metaDescription) > 180,
           "metaShorter")
     \o If(scores.metaDescriptionScore < 50 /\ TextLength(input.metaDescription) = 0,
           "metaSet")
     \o If(scores.contentStructureScore < 50 /\ SplitLength(input.content) < 500,
           "moreWords")
     \o If(scores.contentStructureScore < 50 /\ totalHeadings < 3, "addHeadings")
     \o If(scores.contentStructureScore < 50 /\ headingCount.h1 = 0, "setH1")
     \o If(scores.keywordOptimizationScore < 50, "keywordFrequency")
     \o If(scores.keywordOptimizationScore < 50, "keywordDiversity")

\* the value returned by analyzeSEO (lines 356-400), but for the random id
SeoMetricsOf(input, t) ==
  LET headingCount == countHeadings(input.content)
      keywords == analyzeKeywords(PlainWords(input.content), input.keywords)
      scores == [titleScore |-> TitleScore(input.title),
                 metaDescriptionScore |-> MetaDescriptionScore(input.metaDescription),
                 contentStructureScore |->
                   ContentStructureScore(input.content, headingCount),
                 keywordOptimizationScore |-> KeywordOptimizationScore(keywords)]
  IN [titleLength |-> TextLength(input.title),
      metaDescriptionLength |-> TextLength(input.metaDescription),
      wordCount |-> SplitLength(input.content),
      headingCount |-> headingCount,
      keywords |-> keywords,
      overallScore |-> OverallScore(scores.titleScore, scores.metaDescriptionScore,
                                    scores.contentStructureScore,
                                    scores.keywordOptimizationScore),
      titleScore |-> scores.titleScore,
      metaDescriptionScore |-> scores.metaDescriptionScore,
      contentStructureScore |-> scores.contentStructureScore,
      keywordOptimizationScore |-> scores.keywordOptimizationScore,
      recommendations |-> generateRecommendations(input, scores),
      calculatedAt |-> toISOString(t)]

\* inputs
SeoTitles ==
  {<<>>, Letters(40), Letters(28) \o <<Run("digit", 1), Run("question", 1)>>,
   Letters(69) \o <<Run("digit", 1)>>,
   Letters(101) \o <<Run("dot", 3)>>}
SeoMetas ==
  {<<>>, Letters(50), Letters(150),
   Letters(120) \o <<Run("houhou", 1), Run("kuwashiku", 1), Run("muryou", 1),
                     Run("maru", 1)>>,
   Letters(201)}
Bodies ==
  {<<>>,
   <<Run("seo", 10), Run("a", 290)>>,
   <<Run("kiji", 1000)>>,
   <<Run("seo", 30), Run("ai", 970), Run("key1", 5), Run("key2", 5), Run("key3", 5),
     Run("key4", 5), Run("key5", 5), Run("key6", 5), Run("key7", 5), Run("key8", 5)>>,
   <<Run("ai", 5100)>>}

\* n elements of one kind
Repeat(el, n) == [i \in 1..n |-> el]

\* headings, then the paragraphs, the body in the first of them or, where
\* there is no paragraph, after the headings without a tag
Content(h1, h2, h3, p, body) ==
  Repeat(Element("h1", <<Run("seo", 1)>>), h1)
  \o Repeat(Element("h2", <<Run("guide", 1)>>), h2)
  \o Repeat(Element("h3", <<Run("guide", 1)>>), h3)
  \o (IF p > 0 THEN <<Element("p", body)>> \o Repeat(Element("p", <<>>), p - 1)
      ELSE IF body # <<>> THEN <<Element("", body)>>
      ELSE <<>>)

Contents ==
  {Content(h1, h2, h3, p, body) :
     h1 \in {0, 1, 2}, h2 \in {0, 1, 2, 9}, h3 \in {0, 5}, p \in {0, 1, 3, 21},
     body \in Bodies}

TargetKeywords == {<<>>, <<"seo">>, <<"abs", "ai">>}

SeoInputs ==
  [title : SeoTitles, metaDescription : SeoMetas, content : Contents,
   keywords : TargetKeywords]

analyzeSEO(input) ==
  /\ seo = NoSeo
  /\ seo' = [op |-> "analyze", input |-> input, raised |-> FALSE,
             metrics |-> SeoMetricsOf(input, now)]
  /\ UNCHANGED <<query, fmt, gen, now, ticks, rlVars, parseVars, histVars>>

\* inputs of analyzeKeywords: texts of no word, of words in both cases, of
\* 23 occurrences in 160 words (14.375 percent, which the doubles round
\* down), of eleven and of twelve different words, and lists of up to sixteen
\* keywords
KeywordTexts ==
  {<<>>,
   <<Run("kiji", 10)>>,
   <<Run("seo", 3), Run("ai", 5)>>,
   <<Run("SEO", 2), Run("guide", 1), Run("seo", 1)>>,
   <<Run("seo", 23), Run("ai", 137)>>,
   <<Run("key1", 2), Run("seo", 9), Run("key2", 2), Run("key3", 2), Run("key4", 2),
     Run("key5", 2), Run("key6", 2), Run("key7", 2), Run("key8", 2), Run("key9", 2),
     Run("key10", 1)>>,
   <<Run("key1", 3), Run("key2", 3), Run("key3", 2), Run("key4", 2), Run("key5", 2),
     Run("key6", 2), Run("key7", 2), Run("key8", 2), Run("key9", 2), Run("key10", 2),
     Run("key11", 1), Run("seo", 1), Run("ai", 40)>>}

KeywordLists ==
  {<<>>, <<"seo">>, <<"SEO">>, <<"abs", "ai">>, <<"key10">>, <<"key2", "key1">>}
  \cup {Repeat("abs", n) : n \in {5, 6, 15, 16}}

analyzeKeywordsCall(txt, targetKeywords) ==
  /\ seo = NoSeo
  /\ seo' = [op |-> "keywords", text |-> txt, targetKeywords |-> targetKeywords,
             result |-> analyzeKeywords(txt, targetKeywords)]
  /\ UNCHANGED <<query, fmt, gen, now, ticks, rlVars, parseVars, histVars>>

InitSeo ==
  /\ now = Epoch
  /\ ticks = 0
  /\ RLIdle
  /\ ParseIdle
  /\ HistIdle
  /\ PureIdle

\* the inputs left to a behaviour: all of them before its call, none after
Uncalled(S) == IF seo = NoSeo THEN S ELSE {}

NextSeo ==
  \/ \E title \in Uncalled(Titles) : calculateTitleScore(title)
  \/ \E metaDescription \in Uncalled(Metas) :
       calculateMetaDescriptionScore(metaDescription)
  \/ \E txt \in Uncalled(KeywordTexts), targetKeywords \in Uncalled(KeywordLists) :
       analyzeKeywordsCall(txt, targetKeywords)
  \/ \E input \in Uncalled(SeoInputs) : analyzeSEO(input)

SpecSeo == InitSeo /\ [][NextSeo]_vars

----------------------------------------------------------------------------
(* contentFormatter.ts.  A text is a list of one-character strings; the    *)
(* HTML written is a list of characters and of tags, a tag being one       *)
(* string of the list.                                                     *)

MaxMainLen == 7
MaxHeadings == 3

\* the last position of the match of /\n\s*\n/ that starts at i, 0 when
\* none starts there
BlankLineEnd(s, i) ==
  LET ends == {j \in (i + 1)..Len(s) :
                 s[j] = "\n" /\ \A k \in (i + 1)..(j - 1) : s[k] \in WhiteSpace}
  IN IF s[i] = "\n" /\ ends # {} THEN SetMax(ends) ELSE 0

\* text.split(/\n\s*\n/)
RECURSIVE SplitBlankLines(_)
SplitBlankLines(s) ==
  LET starts == {i \in 1..Len(s) : BlankLineEnd(s, i) # 0}
  IN IF starts = {} THEN <<s>>
     ELSE <<SubSeq(s, 1, SetMin(starts) - 1)>>
          \o SplitBlankLines(SubSeq(s, BlankLineEnd(s, SetMin(starts)) + 1, Len(s)))

\* .split(/\n\s*\n/).map(p => p.trim()).filter(p => p.length > 0)
Paragraphs(s) ==
  SelectSeq([i \in 1..Len(SplitBlankLines(s)) |-> Trim(SplitBlankLines(s)[i])],
            LAMBDA para : Len(para) > 0)

\* parts.join(sep)
RECURSIVE Join(_, _)
Join(parts, sep) ==
  IF parts = <<>> THEN <<>>
  ELSE IF Len(parts) = 1 THEN parts[1]
  ELSE parts[1] \o sep \o Join(Tail(parts), sep)

\* paragraph.replace(/\n/g, '<br>')
RECURSIVE ReplaceNewlines(_)
ReplaceNewlines(s) ==
  IF s = <<>> THEN <<>>
  ELSE <<IF Head(s) = "\n" THEN "<br>" ELSE Head(s)>> \o ReplaceNewlines(Tail(s))

\* lines 10-27
formatTextToParagraphs(s) ==
  IF s = <<>> THEN <<>>
  ELSE Join([i \in 1..Len(Paragraphs(s)) |->
               <<"<p>">> \o ReplaceNewlines(Paragraphs(s)[i]) \o <<"</p>">>],
            <<"\n", "\n">>)

\* variant of CeilDiv that rounds down
FloorDiv(a, b) == a \div b

\* Math.ceil(a / b) for a >= 0 and b > 0
CeilDiv(a, b) == (a + b - 1) \div b

\* paragraphs.slice(startIndex, endIndex), the indices 0-based
Slice(list, startIndex, endIndex) ==
  SubSeq(list, Min(startIndex, Len(list)) + 1, Min(endIndex, Len(list)))

\* lines 102-127
SplitSectionsOf(mainContent, headings) ==
  LET paragraphs == Paragraphs(mainContent)
      sectionsCount == Len(headings)
      paragraphsPerSection == CeilDiv(Len(paragraphs), sectionsCount)
  IN IF Len(paragraphs) = 0 THEN <<>>
     ELSE [k \in 1..sectionsCount |->
             Join(Slice(paragraphs, (k - 1) * paragraphsPerSection,
                        Min((k - 1) * paragraphsPerSection + paragraphsPerSection,
                            Len(paragraphs))),
                  <<"\n", "\n">>)]

\* `h${heading.level}` between < and >, and between </ and >
OpenTag(level) == <<"<h1>", "<h2>", "<h3>", "<h4>", "<h5>", "<h6>">>[level]
CloseTag(level) == <<"</h1>", "</h2>", "</h3>", "</h4>", "</h5>", "</h6>">>[level]

\* variant of HeadingSection that never writes the description
HeadingSectionBare(heading, index, contentSections) ==
  <<OpenTag(heading.level)>> \o heading.text \o <<CloseTag(heading.level), "\n">>
  \o (IF index <= Len(contentSections)
      THEN formatTextToParagraphs(contentSections[index])
      ELSE <<>>)
  \o <<"\n", "\n">>

\* lines 72-81: what the forEach appends for the heading at index (1-based)
HeadingSection(heading, index, contentSections) ==
  <<OpenTag(heading.level)>> \o heading.text \o <<CloseTag(heading.level), "\n">>
  \o (IF index <= Len(contentSections) /\ contentSections[index] # <<>>
      THEN formatTextToParagraphs(contentSections[index])
      ELSE formatTextToParagraphs(heading.description))
  \o <<"\n", "\n">>

RECURSIVE HeadingSections(_, _, _)
HeadingSections(headings, index, contentSections) ==
  IF index > Len(headings) THEN <<>>
  ELSE HeadingSection(headings[index], index, contentSections)
       \o HeadingSections(headings, index + 1, contentSections)

\* lines 46-97; the tags of the three div elements are single strings
FullArticleHTML(suggestion) ==
  IF ~suggestion.fullArticle.defined THEN <<>>
  ELSE LET introduction == suggestion.fullArticle.introduction
           mainContent == suggestion.fullArticle.mainContent
           conclusion == suggestion.fullArticle.conclusion
           headings == suggestion.headings
       IN Trim(
            (IF introduction # <<>>
             THEN <<"<div class=\"introduction\">", "\n">>
                  \o formatTextToParagraphs(introduction)
                  \o <<"\n", "</div>", "\n", "\n">>
             ELSE <<>>)
            \o (IF mainContent # <<>>
                THEN IF Len(headings) > 0
                     THEN <<"<div class=\"main-content\">", "\n">>
                          \o HeadingSections(headings, 1,
                                             SplitSectionsOf(mainContent, headings))
                          \o <<"</div>", "\n", "\n">>
                     ELSE <<"<div class=\"main-content\">", "\n">>
                          \o formatTextToParagraphs(mainContent)
                          \o <<"\n", "</div>", "\n", "\n">>
                ELSE <<>>)
            \o (IF conclusion # <<>>
                THEN <<"<div class=\"conclusion\">", "\n">>
                     \o formatTextToParagraphs(conclusion)
                     \o <<"\n", "</div>">>
                ELSE <<>>))

\* html.replace(/\n{3,}/g, '\n\n'): every run of three or more newlines
\* becomes two
RECURSIVE CollapseNewlines(_)
CollapseNewlines(s) ==
  IF s = <<>> THEN <<>>
  ELSE IF Head(s) # "\n" THEN <<Head(s)>> \o CollapseNewlines(Tail(s))
  ELSE LET run == SetMax({n \in 1..Len(s) : \A k \in 1..n : s[k] = "\n"})
       IN (IF run >= 3 THEN <<"\n", "\n">> ELSE SubSeq(s, 1, run))
          \o CollapseNewlines(SubSeq(s, run + 1, Len(s)))

\* the last position of the match of open \s* close that starts at the
\* head of s, 0 when none starts there
TagPairEnd(s, open, close) ==
  LET ends == {j \in 2..Len(s) :
                 s[j] = close /\ \A k \in 2..(j - 1) : s[k] \in WhiteSpace}
  IN IF s # <<>> /\ s[1] = open /\ ends # {} THEN SetMin(ends) ELSE 0

\* cleaned.replace(/<p>\s*<\/p>/g, ''): one pass from left to right
RECURSIVE RemoveEmptyParagraphs(_)
RemoveEmptyParagraphs(s) ==
  IF s = <<>> THEN <<>>
  ELSE IF TagPairEnd(s, "<p>", "</p>") # 0
       THEN RemoveEmptyParagraphs(SubSeq(s, TagPairEnd(s, "<p>", "</p>") + 1, Len(s)))
       ELSE <<Head(s)>> \o RemoveEmptyParagraphs(Tail(s))

\* cleaned.replace(/(<\/p>)\s*(<p>)/g, '$1\n\n$2')
RECURSIVE NormalizeParagraphGaps(_)
NormalizeParagraphGaps(s) ==
  IF s = <<>> THEN <<>>
  ELSE IF TagPairEnd(s, "</p>", "<p>") # 0
       THEN <<"</p>", "\n", "\n", "<p>">>
            \o NormalizeParagraphGaps(SubSeq(s, TagPairEnd(s, "</p>", "<p>") + 1, Len(s)))
       ELSE <<Head(s)>> \o NormalizeParagraphGaps(Tail(s))

\* lines 160-173
CleanedHTML(html) ==
  IF html = <<>> THEN <<>>
  ELSE Trim(NormalizeParagraphGaps(RemoveEmptyParagraphs(CollapseNewlines(html))))

\* inputs
MaxHtmlLen == 7
HtmlAlphabet == {"a", " ", "\n", "<p>", "</p>"}
HtmlTexts == UNION {[1..n -> HtmlAlphabet] : n \in 0..MaxHtmlLen}

MaxParagraphs == 4
MainAlphabet == {"a", "b", " ", "\n"}
MainContents == UNION {[1..n -> MainAlphabet] : n \in 0..MaxMainLen}

\* the heading at a position of structure.headings: the levels alternate,
\* the texts differ in length, every second heading has no description
HeadingAtIndex(i) ==
  [level |-> 2 + (i % 2),
   text |-> [k \in 1..i |-> "h"],
   description |-> IF i % 2 = 1 THEN <<"d">> ELSE <<>>]

HeadingList(n) == [i \in 1..n |-> HeadingAtIndex(i)]

\* a mainContent written as paragraphs with an empty line between them,
\* and one of white space only
ParagraphLists == UNION {[1..n -> {<<"a">>, <<"b", "\n", "a">>}] : n \in 1..MaxParagraphs}

Suggestions ==
  {[fullArticle |-> [defined |-> FALSE], headings |-> HeadingList(1), pars |-> <<>>]}
  \cup
  {[fullArticle |-> [defined |-> TRUE, introduction |-> intro,
                     mainContent |-> main.text, conclusion |-> concl],
    headings |-> HeadingList(n),
    pars |-> main.pars] :
     intro \in {<<>>, <<"a">>},
     concl \in {<<>>, <<"b">>},
     n \in 0..MaxHeadings,
     main \in {[text |-> <<>>, pars |-> <<>>], [text |-> <<" ">>, pars |-> <<>>]}
               \cup {[text |-> Join(ps, <<"\n", "\n">>), pars |-> ps] :
                       ps \in ParagraphLists}}

\* the texts given to splitContentByHeadings: every short text, and the
\* longer ones written as paragraphs
SplitInputs ==
  MainContents \cup {Join(ps, <<"\n", "\n">>) : ps \in ParagraphLists}

\* the inputs left to a behaviour: all of them before its call, none after
Unformatted(S) == IF fmt = NoFmt THEN S ELSE {}

\* One call is followed per behaviour: the value returned depends on the
\* arguments only.
splitContentByHeadings(mainContent, headings) ==
  /\ fmt' = [op |-> "split", mainContent |-> mainContent, headings |-> headings,
             raised |-> FALSE,
             result |-> SplitSectionsOf(mainContent, headings)]
  /\ UNCHANGED <<query, seo, gen, now, ticks, rlVars, parseVars, histVars>>

formatFullArticleToHTML(suggestion) ==
  /\ fmt' = [op |-> "format", suggestion |-> suggestion, raised |-> FALSE,
             result |-> FullArticleHTML(suggestion)]
  /\ UNCHANGED <<query, seo, gen, now, ticks, rlVars, parseVars, histVars>>

cleanupHTML(html) ==
  /\ fmt' = [op |-> "cleanup", html |-> html, raised |-> FALSE,
             result |-> CleanedHTML(html)]
  /\ UNCHANGED <<query, seo, gen, now, ticks, rlVars, parseVars, histVars>>

InitFormat ==
  /\ now = Epoch
  /\ ticks = 0
  /\ RLIdle
  /\ ParseIdle
  /\ HistIdle
  /\ PureIdle

NextFormat ==
  \/ \E mainContent \in Unformatted(SplitInputs), n \in 1..MaxHeadings :
       splitContentByHeadings(mainContent, HeadingList(n))
  \/ \E suggestion \in Unformatted(Suggestions) : formatFullArticleToHTML(suggestion)
  \/ \E html \in Unformatted(HtmlTexts) : cleanupHTML(html)

SpecFormat == InitFormat /\ [][NextFormat]_vars

----------------------------------------------------------------------------
(* Prompt history store: claims *)

Fingerprint(r) == <<r.originalPrompt, r.siteId, r.modelUsed>>

Abs(x) == IF x < 0 THEN 0 - x ELSE x

\* no two stored records with one fingerprint lie less than 30 seconds apart
NoNearDuplicates ==
  \A i \in 1..Len(history), j \in 1..Len(history) :
    (i # j /\ Fingerprint(history[i]) = Fingerprint(history[j]))
      => Abs(getTime(history[i].generatedAt) - getTime(history[j].generatedAt)) >= 30000

\* no record links one articleId twice
NoDuplicateArticles ==
  \A i \in 1..Len(history) :
    \A k \in 1..Len(history[i].resultingArticles),
       l \in 1..Len(history[i].resultingArticles) :
      k # l => history[i].resultingArticles[k].articleId
                 # history[i].resultingArticles[l].articleId

\* most recent first
NewestFirst ==
  \A i \in 1..(Len(history) - 1) :
    getTime(history[i].generatedAt) >= getTime(history[i + 1].generatedAt)

\* two addPromptHistory calls in a row, same data, less than 30 seconds apart
TwoAddsInARow ==
  /\ call.op = "add" /\ prevCall.op = "add"
  /\ call.data = prevCall.data
  /\ call.at - prevCall.at < 30000

\* C3 (as stated): from any reachable state of the store, two
\* addPromptHistory calls with the same (originalPrompt, siteId, modelUsed)
\* made within 30 seconds of each other add exactly one record and return
\* records with the same id.
C3_TwoAddsOneRecord ==
  TwoAddsInARow =>
    /\ Len(history) = prevCall.lenBefore + 1
    /\ call.ret = prevCall.ret

\* C3 (amended): when an addPromptHistory call has added a new record and
\* the next store operation is an addPromptHistory call with the same
\* (originalPrompt, siteId, modelUsed) less than 30 seconds later, the two
\* calls add exactly one record and return records with the same id.
C3_SecondAddReturnsCreated ==
  (TwoAddsInARow /\ prevCall.created) =>
    /\ Len(history) = prevCall.lenBefore + 1
    /\ call.ret = prevCall.ret

\* C3 witness: the second call came 5 seconds or more after the creating
\* one and found its record by the 30-second scan.
C3_Witness ==
  /\ TwoAddsInARow /\ prevCall.created
  /\ call.at - prevCall.at >= 5000
  /\ call.rule = 2
  /\ call.ret = prevCall.ret

\* C4 (as stated): after any sequence of store operations the store never
\* holds two records with the same fingerprint whose generatedAt times are
\* less than 30 seconds apart.
C4_NoNearDuplicatesEver == NoNearDuplicates

\* C4 (amended): the same, as long as no updatePromptHistory call has
\* written originalPrompt, siteId, modelUsed or generatedAt and
\* savePromptHistory has not been called directly.
C4_NoNearDuplicatesUnlessRewritten ==
  (updatedFields \cap {"originalPrompt", "siteId", "modelUsed", "generatedAt"} = {})
    => NoNearDuplicates

\* C4 witness: two records with one fingerprint are stored, the second
\* added once the first was 30 seconds old, and no update has been made.
C4_Witness ==
  /\ updatedFields = {}
  /\ Len(history) = 2
  /\ Fingerprint(history[1]) = Fingerprint(history[2])

\* C5: when the previous addPromptHistory call created a record less than 5
\* seconds ago and that record is still stored, an addPromptHistory call
\* returns that record, whatever its data, and leaves the store unchanged.
C5_DoubleSubmitReturnsLast ==
  (/\ call.op = "add" /\ call.prior.op = "add"
   /\ call.prior.created
   /\ call.at - call.prior.at < 5000
   /\ call.priorStored)
    => /\ call.ret = call.prior.ret
       /\ call.storeUnchanged

\* C5 witness: such a call with data that differ from the created record's.
C5_Witness ==
  /\ call.op = "add" /\ call.prior.op = "add"
  /\ call.prior.created
  /\ call.at - call.prior.at < 5000
  /\ call.at # call.prior.at
  /\ call.priorStored
  /\ call.data.originalPrompt # call.prior.data.originalPrompt
  /\ call.data.siteId # call.prior.data.siteId
  /\ call.ret = call.prior.ret

\* addResultingArticle with an articleId the record already links leaves
\* the store as it was
RelinkIsNoop ==
  (call.op = "addArticle" /\ call.linkedBefore) => call.storeUnchanged

\* C6 (as stated): after any sequence of store operations no record's
\* resultingArticles holds one articleId twice, and addResultingArticle with
\* an articleId already linked to the record changes nothing.
C6_UniqueArticlesEver == NoDuplicateArticles /\ RelinkIsNoop

\* C6 (amended): the same, the uniqueness as long as no updatePromptHistory
\* call has written resultingArticles and savePromptHistory has not been
\* called directly.
C6_UniqueArticlesUnlessRewritten ==
  /\ ("resultingArticles" \notin updatedFields) => NoDuplicateArticles
  /\ RelinkIsNoop

\* C6 witness: an article already linked to a stored record has been linked
\* again, with another status, and the record still links it once.
C6_Witness ==
  /\ call.op = "addArticle" /\ call.linkedBefore /\ call.ret
  /\ call.article.status = "published"
  /\ updatedFields = {}
  /\ \E i \in 1..Len(history) :
       /\ history[i].id = call.id
       /\ history[i].resultingArticles = <<[articleId |-> "a1", status |-> "draft"]>>

\* C7 (as stated): after any sequence of store operations the records are
\* in most-recent-first order of generatedAt.
C7_NewestFirstEver == NewestFirst

\* C7 (amended): the same, as long as no updatePromptHistory call has
\* written generatedAt and savePromptHistory has not been called directly.
C7_NewestFirstUnlessRewritten ==
  ("generatedAt" \notin updatedFields) => NewestFirst

\* C7 witness: two records created at different times are stored and no
\* update has been made.
C7_Witness ==
  /\ updatedFields = {}
  /\ Len(history) = 2
  /\ getTime(history[1].generatedAt) > getTime(history[2].generatedAt)

\* the operations that take the id of a record
ByIdOps == {"update", "delete", "addArticle", "addSEO", "addRating"}

\* C15: called with an id that no stored record has, updatePromptHistory,
\* deletePromptHistory, addResultingArticle, addSEOMetricsToHistory and
\* addUserRating return false and leave the persisted store unchanged;
\* called with the id of a stored record, each returns true.
C15_AbsentIdFalseStoredIdTrue ==
  call.op \in ByIdOps =>
    /\ call.ret = call.stored
    /\ ~call.stored => call.storeUnchanged

\* C15 witness: addUserRating has just been called on a store that holds
\* a record, with an id that no record has, and returned false.
C15_Witness ==
  /\ call.op = "addRating" /\ ~call.stored /\ ~call.ret
  /\ call.storeUnchanged
  /\ Len(history) > 0

\* C18 (as stated): when persisting the store fails during
\* addPromptHistory, the failure is propagated to the caller and the
\* remembered last record id and timestamp stay as they were before the
\* call.
C18_SaveFailurePropagates ==
  (call.op = "add" /\ call.saveFailed) =>
    /\ call.raised
    /\ call.cacheUnchanged

\* C19 (as stated): loading a persisted history that holds a malformed
\* entry returns all the well-formed records, and an addPromptHistory call
\* never removes a well-formed persisted record.
C19_MalformedSkippedNoLoss ==
  /\ (call.op = "get" /\ call.malformed) => call.ret = call.wellFormed
  /\ call.op = "add" => call.keptAll

\* a criterion on a string is supplied when the string is given and not ''
Supplied(x) == x # Undefined /\ x # ""

\* the record satisfies every criterion the filter supplies
Satisfies(item, f) ==
  /\ f.dateRange.defined =>
       /\ DateLE(f.dateRange.from, item.generatedAt)
       /\ DateLE(item.generatedAt, f.dateRange.to)
  /\ Supplied(f.siteId) => item.siteId = f.siteId
  /\ Supplied(f.modelUsed) => item.modelUsed = f.modelUsed
  /\ f.minSeoScore.defined =>
       (item.seoMetrics.defined /\ item.seoMetrics.overallScore >= f.minSeoScore.value)
  /\ f.maxSeoScore.defined =>
       (item.seoMetrics.defined /\ item.seoMetrics.overallScore <= f.maxSeoScore.value)
  /\ f.hasArticles.defined =>
       ((Len(item.resultingArticles) > 0) = f.hasArticles.value)
  /\ f.userRating.defined => item.userRating = f.userRating.value

NoCriterion(f) ==
  /\ ~f.dateRange.defined /\ ~Supplied(f.siteId) /\ ~Supplied(f.modelUsed)
  /\ ~f.minSeoScore.defined /\ ~f.maxSeoScore.defined
  /\ ~f.hasArticles.defined /\ ~f.userRating.defined

\* the positions of the store whose records satisfy the filter
Matching(f) == {i \in 1..Len(history) : Satisfies(history[i], f)}

\* C16: filterPromptHistory returns exactly the stored records that satisfy
\* every criterion supplied, in store order, and does not change the store;
\* with no criterion it returns the whole store.
C16_FilterIsConjunction ==
  query.op = "filter" =>
    /\ Len(query.result) = Cardinality(Matching(query.filter))
    /\ \A k \in 1..Len(query.result) :
         \E i \in Matching(query.filter) :
           /\ query.result[k] = history[i]
           /\ Cardinality({j \in Matching(query.filter) : j < i}) = k - 1
    /\ query.storeUnchanged
    /\ NoCriterion(query.filter) => query.result = history

\* C16 witness: a filter with a site, a minimum score and a has-articles
\* criterion has kept the second of two stored records and dropped the
\* first.
C16_Witness ==
  /\ query.op = "filter"
  /\ Supplied(query.filter.siteId)
  /\ query.filter.minSeoScore.defined
  /\ query.filter.hasArticles.defined
  /\ Len(history) = 2
  /\ query.result = <<history[2]>>

\* the positions of the records of a site (of all sites when none is given)
OfSite(siteId) ==
  {i \in 1..Len(history) : Supplied(siteId) => history[i].siteId = siteId}

\* the sum of f[k].field over the keys k of a breakdown
RECURSIVE SumUsage(_)
SumUsage(f) ==
  IF DOMAIN f = {} THEN 0
  ELSE LET k == CHOOSE x \in DOMAIN f : TRUE
       IN f[k].usage + SumUsage([x \in DOMAIN f \ {k} |-> f[x]])

RECURSIVE SumPromptCount(_)
SumPromptCount(f) ==
  IF DOMAIN f = {} THEN 0
  ELSE LET k == CHOOSE x \in DOMAIN f : TRUE
       IN f[k].promptCount + SumPromptCount([x \in DOMAIN f \ {k} |-> f[x]])

\* C17: calculatePromptHistoryStats returns totalPrompts equal to the number
\* of (site-filtered) records, successfulPrompts equal to the number of those
\* with at least one linked article, totalArticlesCreated equal to the sum of
\* their linked-article counts, and per-model usage and per-month
\* promptCount values that each sum to totalPrompts; without records every
\* aggregate is 0, both breakdowns are empty and nothing is raised.
C17_StatsCountTheStore ==
  query.op = "stats" =>
    LET I == OfSite(query.siteId)
        r == query.result
    IN /\ ~query.raised
       /\ r.totalPrompts = Cardinality(I)
       /\ r.successfulPrompts =
            Cardinality({i \in I : Len(history[i].resultingArticles) > 0})
       /\ r.totalArticlesCreated =
            SumSeq([i \in 1..Len(history) |->
                      IF i \in I THEN Len(history[i].resultingArticles) ELSE 0])
       /\ SumUsage(r.modelStats) = r.totalPrompts
       /\ SumPromptCount(r.monthlyStats) = r.totalPrompts
       /\ I = {} =>
            /\ r.totalPrompts = 0 /\ r.successfulPrompts = 0
            /\ r.averageSeoScore = 0 /\ r.averageWordCount = 0
            /\ r.totalArticlesCreated = 0 /\ r.totalTokensUsed = 0
            /\ r.totalCost = 0
            /\ DOMAIN r.modelStats = {} /\ DOMAIN r.monthlyStats = {}

\* C17 witness: the statistics of a store of two records of one model,
\* made in two different months, one of them with a linked article.
C17_Witness ==
  /\ query.op = "stats"
  /\ query.result.totalPrompts = 2
  /\ query.result.successfulPrompts = 1
  /\ Cardinality(DOMAIN query.result.monthlyStats) = 2
  /\ \E m \in DOMAIN query.result.modelStats : query.result.modelStats[m].usage = 2

\* the title with each digit and question mark replaced by a letter
Plain(title) ==
  [i \in 1..Len(title) |->
     IF title[i].tok \in {"digit", "question"} THEN Run("x", title[i].n) ELSE title[i]]

\* C12: a title that contains a digit and a question mark scores strictly
\* higher than the title of equal length that contains neither and is
\* otherwise the same (how-to, list, appeal, exclamation and ellipsis
\* features), also where the score is clamped to 0 or to 100.
C12_DigitAndQuestionScoreHigher ==
  (/\ seo.op = "title"
   /\ Test(seo.title, {"digit"}) /\ Test(seo.title, {"question"}))
    => /\ TextLength(Plain(seo.title)) = TextLength(seo.title)
       /\ ~Test(Plain(seo.title), {"digit", "question"})
       /\ seo.score > TitleScore(Plain(seo.title))

\* C12 witness: a title of more than 100 characters with an ellipsis, a
\* digit and a question mark: without the two its score is clamped to 0.
C12_Witness ==
  /\ seo.op = "title"
  /\ Test(seo.title, {"digit"}) /\ Test(seo.title, {"question"})
  /\ TextLength(seo.title) > 100
  /\ Includes(seo.title, "dot", 3)
  /\ TitleScore(Plain(seo.title)) = 0
  /\ seo.score = 5

\* C11: analyzeSEO returns a titleScore, metaDescriptionScore,
\* contentStructureScore, keywordOptimizationScore and overallScore that are
\* integers from 0 to 100, whatever the title, content, meta description
\* and target keywords; with an empty title, content and meta description
\* the overallScore is 0.
C11_ScoresInRange ==
  seo.op = "analyze" =>
    /\ ~seo.raised
    /\ seo.metrics.titleScore \in 0..100
    /\ seo.metrics.metaDescriptionScore \in 0..100
    /\ seo.metrics.contentStructureScore \in 0..100
    /\ seo.metrics.keywordOptimizationScore \in 0..100
    /\ seo.metrics.overallScore \in 0..100
    /\ (/\ seo.input.title = <<>> /\ seo.input.content = <<>>
        /\ seo.input.metaDescription = <<>>)
         => seo.metrics.overallScore = 0

\* C11 witness: an analysis with target keywords of a title whose points
\* sum to less than 0 and of a content whose five parts all score.
C11_Witness ==
  /\ seo.op = "analyze"
  /\ TextLength(seo.input.title) > 100 /\ Includes(seo.input.title, "dot", 3)
  /\ seo.metrics.titleScore = 0
  /\ seo.metrics.contentStructureScore = 100
  /\ seo.metrics.keywordOptimizationScore >= 70
  /\ seo.input.keywords # <<>>
  /\ seo.metrics.overallScore \in 1..99

\* the k-th block of c consecutive elements of a list
Block(list, k, c) == SubSeq(list, Min((k - 1) * c, Len(list)) + 1, Min(k * c, Len(list)))

\* the least c with c * h >= p
Ceiling(p, h) == CHOOSE c \in 0..p : c * h >= p /\ (c = 0 \/ (c - 1) * h < p)

\* the blocks of a list one after another
RECURSIVE Blocks(_, _, _)
Blocks(list, n, c) ==
  IF n = 0 THEN <<>> ELSE Blocks(list, n - 1, c) \o Block(list, n, c)

\* the groups are the blocks of ceil(paragraphCount / headingCount)
\* paragraphs, one a heading, and together they are the paragraph list
GroupsAreBlocks ==
  LET pars == Paragraphs(fmt.mainContent)
      c == Ceiling(Len(pars), Len(fmt.headings))
  IN /\ Len(fmt.result) = Len(fmt.headings)
     /\ \A k \in 1..Len(fmt.result) :
          Paragraphs(fmt.result[k]) = Block(pars, k, c)
     /\ Blocks(pars, Len(fmt.headings), c) = pars

\* C13 (as stated): for every mainContent and every non-empty headings
\* list, splitContentByHeadings returns exactly headings.length groups,
\* group i being the i-th block of ceil(paragraphCount / headingCount)
\* consecutive paragraphs, the groups together giving the paragraph list.
C13_GroupsForEveryContent ==
  (fmt.op = "split" /\ Len(fmt.headings) > 0) => GroupsAreBlocks

\* C13 (amended): the same for every mainContent with at least one
\* paragraph; for a mainContent without one (empty or white space only) the
\* list returned is empty.
C13_GroupsWhenParagraphs ==
  (fmt.op = "split" /\ Len(fmt.headings) > 0) =>
    IF Paragraphs(fmt.mainContent) = <<>> THEN fmt.result = <<>>
    ELSE GroupsAreBlocks

\* C13 witness: three paragraphs for two headings, in blocks of two: the
\* first two and the third.
C13_Witness ==
  /\ fmt.op = "split"
  /\ Len(fmt.headings) = 2
  /\ Len(Paragraphs(fmt.mainContent)) = 3
  /\ Len(fmt.result) = 2
  /\ Len(Paragraphs(fmt.result[1])) = 2
  /\ Len(Paragraphs(fmt.result[2])) = 1

\* the paragraphs of a list, each between its tags, an empty line between
\* two of them
RECURSIVE Rendered(_)
Rendered(ps) ==
  IF ps = <<>> THEN <<>>
  ELSE <<"<p>">> \o ReplaceNewlines(Head(ps)) \o <<"</p>">>
       \o (IF Len(ps) = 1 THEN <<>> ELSE <<"\n", "\n">> \o Rendered(Tail(ps)))

\* what the main part of the article is to hold for the headings from
\* index on: the heading between its tags, then its group of paragraphs
\* or, without one, its description
RECURSIVE ExpectedSections(_, _, _, _)
ExpectedSections(headings, index, pars, c) ==
  IF index > Len(headings) THEN <<>>
  ELSE LET heading == headings[index]
           group == Block(pars, index, c)
       IN <<OpenTag(heading.level)>> \o heading.text
          \o <<CloseTag(heading.level), "\n">>
          \o (IF group # <<>> THEN Rendered(group)
              ELSE formatTextToParagraphs(heading.description))
          \o <<"\n", "\n">>
          \o ExpectedSections(headings, index + 1, pars, c)

\* the positions of a text where a heading opens
HeadingOpenings(html) ==
  {i \in 1..Len(html) : html[i] \in {OpenTag(level) : level \in 1..6}}

\* the part of a text between the opening of the main part and its end
MainPart(html) ==
  LET from == CHOOSE i \in 1..Len(html) : html[i] = "<div class=\"main-content\">"
      to == CHOOSE i \in from..Len(html) :
              html[i] = "</div>" /\ \A j \in from..(i - 1) : html[j] # "</div>"
  IN SubSeq(html, from + 2, to - 1)

\* C14: for a suggestion with a fullArticle, a non-empty headings list and
\* a non-empty mainContent, formatFullArticleToHTML writes every heading
\* exactly once, in order, each followed by its paragraph group or, when
\* the group is empty or absent, by its description.
C14_EachHeadingOnceWithGroupOrDescription ==
  (/\ fmt.op = "format"
   /\ fmt.suggestion.fullArticle.defined
   /\ Len(fmt.suggestion.headings) > 0
   /\ fmt.suggestion.fullArticle.mainContent # <<>>) =>
    LET headings == fmt.suggestion.headings
        pars == fmt.suggestion.pars
        c == Ceiling(Len(pars), Len(headings))
    IN /\ Cardinality(HeadingOpenings(fmt.result)) = Len(headings)
       /\ MainPart(fmt.result) = ExpectedSections(headings, 1, pars, c)

\* C14 witness: three headings over two paragraphs: the first two
\* headings are followed by a paragraph each, the third, left without a
\* group, by its description.
C14_Witness ==
  /\ fmt.op = "format"
  /\ fmt.suggestion.fullArticle.defined
  /\ Len(fmt.suggestion.headings) = 3
  /\ Len(fmt.suggestion.pars) = 2
  /\ Cardinality(HeadingOpenings(fmt.result)) = 3
  /\ \E i \in 1..Len(fmt.result) - 4 :
       SubSeq(fmt.result, i, i + 4) = <<"</h3>", "\n", "<p>", "d", "</p>">>

\* C23: in splitContentByHeadings, whenever the paragraph count is at
\* least the heading count, every heading receives at least one paragraph:
\* no group is empty.
C23_NoEmptyGroupWhenEnoughParagraphs ==
  (/\ fmt.op = "split"
   /\ Len(fmt.headings) > 0
   /\ Len(Paragraphs(fmt.mainContent)) >= Len(fmt.headings)) =>
    /\ Len(fmt.result) = Len(fmt.headings)
    /\ \A k \in 1..Len(fmt.result) : Paragraphs(fmt.result[k]) # <<>>

\* a text holds three newlines in a row
HasNewlineRun(s) ==
  \E i \in 1..(Len(s) - 2) : s[i] = "\n" /\ s[i + 1] = "\n" /\ s[i + 2] = "\n"

\* a text holds a paragraph of nothing or of white space only
HasEmptyParagraph(s) ==
  \E i \in 1..Len(s), j \in 1..Len(s) :
    /\ i < j
    /\ s[i] = "<p>"
    /\ s[j] = "</p>"
    /\ \A k \in (i + 1)..(j - 1) : s[k] \in WhiteSpace

\* C27: for every input, the output of cleanupHTML holds no run of three
\* or more consecutive newlines and no empty paragraph marker (<p></p>,
\* also with only white space inside).
C27_CleanOutput ==
  fmt.op = "cleanup" =>
    /\ ~HasNewlineRun(fmt.result)
    /\ ~HasEmptyParagraph(fmt.result)

\* C26: if analyzeSEO returns an empty list of recommendations, each of the
\* title, meta description, content structure and keyword optimization
\* scores is at least 50.
C26_NoRecommendationNoDeficiency ==
  (seo.op = "analyze" /\ seo.metrics.recommendations = <<>>) =>
    /\ seo.metrics.titleScore >= 50
    /\ seo.metrics.metaDescriptionScore >= 50
    /\ seo.metrics.contentStructureScore >= 50
    /\ seo.metrics.keywordOptimizationScore >= 50

\* the score of a meta description before the points for its sentences
MetaPointsBeforeSentences(t) ==
  (IF TextLength(t) >= 120 /\ TextLength(t) <= 160 THEN 50
   ELSE IF TextLength(t) >= 100 /\ TextLength(t) <= 180 THEN 35
   ELSE IF TextLength(t) >= 80 /\ TextLength(t) <= 200 THEN 20
   ELSE 5)
  + (IF Test(t, {"houhou", "kaisetsu"}) THEN 15 ELSE 0)
  + (IF Test(t, {"kuwashiku"}) THEN 10 ELSE 0)
  + (IF Test(t, {"muryou"}) THEN 10 ELSE 0)

\* C24: calculateMetaDescriptionScore adds the 10 points for the sentence
\* structure exactly when the meta description holds at least two sentence
\* terminators (ideographic full stops).
C24_BonusIffTwoTerminators ==
  (seo.op = "meta" /\ seo.metaDescription # <<>>) =>
    seo.score = Min(100, MetaPointsBeforeSentences(seo.metaDescription)
                           + (IF Occurrences(seo.metaDescription, "maru") >= 2
                              THEN 10 ELSE 0))

\* the terms of a list of keyword entries
Terms(keywords) == [i \in 1..Len(keywords) |-> keywords[i].term]

\* C21: whenever target keywords are supplied, analyzeKeywords returns a
\* list of at most 15 entries that begins with one entry per target
\* keyword, in the order supplied, also for a keyword of frequency 0 and
\* also for an empty content.
C21_TargetKeywordsFirst ==
  (seo.op = "keywords" /\ seo.targetKeywords # <<>>) =>
    /\ Len(seo.result) <= 15
    /\ Len(seo.result) >= Len(seo.targetKeywords)
    /\ SubSeq(Terms(seo.result), 1, Len(seo.targetKeywords)) = seo.targetKeywords

\* C21 (amended): whenever target keywords are supplied and the content
\* is not empty, analyzeKeywords returns a list of at most 15 entries that
\* begins with one entry per target keyword, in the order supplied (the
\* first 15 of them when more are supplied), also for a keyword of
\* frequency 0; for an empty content it returns the empty list.
C21_TargetKeywordsFirstInText ==
  (seo.op = "keywords" /\ seo.targetKeywords # <<>>) =>
    IF RunTotal(seo.text) = 0 THEN seo.result = <<>>
    ELSE LET n == Min(15, Len(seo.targetKeywords))
         IN /\ Len(seo.result) <= 15
            /\ Len(seo.result) >= n
            /\ SubSeq(Terms(seo.result), 1, n) = SubSeq(seo.targetKeywords, 1, n)

\* C21 witness: two target keywords, the first of them not in the text:
\* its entry comes first, with frequency 0.
C21_Witness ==
  /\ seo.op = "keywords"
  /\ seo.targetKeywords = <<"abs", "ai">>
  /\ RunTotal(seo.text) > 0
  /\ Len(seo.result) >= 2
  /\ seo.result[1].term = "abs"
  /\ seo.result[1].frequency = 0
  /\ seo.result[2].term = "ai"

\* the words of a text of 3 characters or more that are no target keyword,
\* with their counts, the most frequent first
NonTargetWords(txt, targetKeywords) ==
  SortByCount(
    SelectSeq(WordCounts([i \in 1..Len(txt) |->
                            Run(ToLowerCase(txt[i].tok), txt[i].n)]),
              LAMBDA e : \A i \in 1..Len(targetKeywords) :
                           ToLowerCase(targetKeywords[i]) # e.term))

\* C25: after the target keywords, analyzeKeywords lists the 10 most
\* frequent words of 3 characters or more that are no target keyword (all
\* of them when there are fewer than 10), up to 15 entries in all: a target
\* keyword among the most frequent words does not reduce their number.
C25_TenNonTargetWords ==
  (seo.op = "keywords" /\ RunTotal(seo.text) > 0) =>
    LET others == NonTargetWords(seo.text, seo.targetKeywords)
        expected == seo.targetKeywords
                    \o Terms(SubSeq(others, 1, Min(10, Len(others))))
    IN Terms(seo.result) = SubSeq(expected, 1, Min(15, Len(expected)))

\* the stored record of an id
RecordOf(id) == history[CHOOSE i \in 1..Len(history) : history[i].id = id]

\* C22: whenever addPromptHistory returns the remembered record through
\* the 5-second rule, without comparing the data, that record was created
\* (generatedAt) less than 5 seconds before the call.
C22_RememberedRecordIsRecent ==
  (call.op = "add" /\ call.rule = 1) =>
    /\ Stored(call.ret)
    /\ call.at - getTime(RecordOf(call.ret).generatedAt) < 5000

\* C30: when persistence succeeds, the record returned by any
\* addPromptHistory call is a member of the store after the call; a record
\* removed by deletePromptHistory is not returned by a later
\* addPromptHistory, even within 5 seconds of its creation.
C30_ReturnedRecordIsStored ==
  (call.op = "add" /\ ~call.saveFailed) => call.retStored

\* C30 witness: a record is created, deleted, and within 5 seconds of its
\* creation addPromptHistory is called again: it creates and stores
\* another record.
C30_Witness ==
  /\ call.op = "add"
  /\ ~call.saveFailed
  /\ prevCall.op = "delete"
  /\ call.prior.op = "add"
  /\ call.prior.created
  /\ ~call.priorStored
  /\ call.at - call.prior.at < 5000
  /\ call.ret # call.prior.ret
  /\ call.retStored

\* the generateArticleSuggestions calls that passed the check for a model
\* within the 60 seconds from time t on
AdmittedFrom(model, t) ==
  {i \in 1..Len(gen.calls) :
     /\ gen.calls[i].fn = "generateArticleSuggestions"
     /\ gen.calls[i].model = model
     /\ gen.calls[i].state # "refused"
     /\ gen.calls[i].checkedAt >= t
     /\ gen.calls[i].checkedAt - t < oneMinute}

\* C28: when generateArticleSuggestions calls for one model overlap (a
\* call starts before the provider has answered another one), the number
\* of calls that pass the canMakeRequest check within any 60-second window
\* never exceeds the rpm limit of the model.  (Stated for the runs of
\* generateArticleSuggestions calls only, in which no provider call has
\* failed.)
C28_AdmissionsWithinRpm ==
  (\A i \in 1..Len(gen.calls) :
     /\ gen.calls[i].fn = "generateArticleSuggestions"
     /\ gen.calls[i].state # "failed") =>
    \A i \in 1..Len(gen.calls) :
      gen.calls[i].model \in DOMAIN RATE_LIMITS =>
        Cardinality(AdmittedFrom(gen.calls[i].model, gen.calls[i].checkedAt))
          <= RATE_LIMITS[gen.calls[i].model].rpm

\* C29: every generation call that passed the check and was sent to the
\* provider is counted once against the window of its model (one
\* recordRequest), whether the provider call succeeded or failed.
C29_EverySentCallRecorded ==
  \A i \in 1..Len(gen.calls) :
    /\ gen.calls[i].fn = "generateArticleSuggestions"
    /\ gen.calls[i].state \in {"answered", "done", "failed"}
    => gen.calls[i].recorded = 1

====
